---- MODULE Spec2Model ----
(***************************************************************************)
(* Channel health monitor and fleet test orchestrator of the gateway       *)
(* (package controller): testChannel, TestChannel, testAllChannels,        *)
(* TestAllChannels, AutomaticallyTestChannels.                             *)
(*                                                                         *)
(* Conventions.                                                            *)
(*  - A Go error is a record [msg, arg]; NilErr is the nil error.          *)
(*  - A *types.NewAPIError is a record [code, err]; NilAPIError is nil.    *)
(*  - Durations are integers in milliseconds.                              *)
(*  - Error texts the code writes in Chinese are given in English.         *)
(*  - The answers of the collaborators that live outside the modelled      *)
(*    files (user cache, model mapping, pricing, adaptor, provider) are    *)
(*    the fields of an environment record `env`, an input of each probe.   *)
(***************************************************************************)
EXTENDS Integers, Sequences, FiniteSets, TLC

VARIABLES
    testAllChannelsRunning, \* the single-flight flag (guarded by testAllChannelsLock)
    sweeps,                 \* the sweep goroutines in flight, oldest first
    options,                \* common.ChannelDisableThreshold (ms), common.AutomaticDisableChannelEnabled
    last,                   \* what the most recent operation did (observation record)
    probe,                  \* the on-demand probe: its inputs and, once handled, its response
    auto                    \* the unattended scheduler: autoTestChannelsOnce, the callers of
                            \* AutomaticallyTestChannels, the monitor setting

vars == <<testAllChannelsRunning, sweeps, options, last, probe, auto>>

-----------------------------------------------------------------------------
(* Bounds of the model *)

MaxFleet == 2        \* channels returned by one GetAllChannels call
MaxSweeps == 2       \* sweep goroutines the model lets coexist (the guard keeps it at 1)
MaxCallers == 2      \* goroutines that call AutomaticallyTestChannels

-----------------------------------------------------------------------------
(* Errors *)

NilErr == [msg |-> "", arg |-> ""]

Err(m) == [msg |-> m, arg |-> ""]

Errorf(m, a) == [msg |-> m, arg |-> a]

errSkipChannelTest == Err("skip channel test: no test model")

NilAPIError == [code |-> "", err |-> NilErr]

\* types.NewError / types.NewOpenAIError: wrap err under an error code
NewError(e, code) == [code |-> code, err |-> e]

\* mutant: no error is the skip sentinel
IsSkipNever(e) == FALSE

\* errors.Is(localErr, errSkipChannelTest)
IsSkip(e) == e = errSkipChannelTest

-----------------------------------------------------------------------------
(* Strings: the model names and the string functions the code applies *)

NoString == "<nil>"     \* a nil *string

ModelNames == {"gpt-4", "text-embedding-3-small", "m3e-base", "bge-large", "embed-v1",
               "seedream-3", "codex-mini", "GPT-Codex", "o1-mini",
               "deepseek-thinking", "claude-3-thinking", "gemini-pro",
               "seedream-embed", "codex-seedream-embed", "gemini-thinking"}

\* strings.TrimSpace
TrimSpace(s) ==
    CASE s = " " -> ""
      [] s = " gpt-4 " -> "gpt-4"
      [] OTHER -> s

\* strings.ToLower
ToLower(s) ==
    CASE s = "GPT-Codex" -> "gpt-codex"
      [] OTHER -> s

\* strings.Contains(s, sub), for the substrings the code looks for
Contains(s, sub) ==
    CASE sub = "embedding" -> s \in {"text-embedding-3-small"}
      [] sub = "embed"     -> s \in {"text-embedding-3-small", "embed-v1", "seedream-embed",
                                     "codex-seedream-embed"}
      [] sub = "bge-"      -> s \in {"bge-large"}
      [] sub = "seedream"  -> s \in {"seedream-3", "seedream-embed", "codex-seedream-embed"}
      [] sub = "codex"     -> s \in {"codex-mini", "gpt-codex", "codex-seedream-embed"}
      [] sub = "thinking"  -> s \in {"deepseek-thinking", "claude-3-thinking", "gemini-thinking"}
      [] sub = "claude"    -> s \in {"claude-3-thinking"}
      [] sub = "gemini"    -> s \in {"gemini-pro", "gemini-thinking"}
      [] OTHER -> FALSE

\* strings.HasPrefix(s, prefix)
HasPrefix(s, prefix) ==
    CASE prefix = "m3e" -> s \in {"m3e-base"}
      [] prefix = "o"   -> s \in {"o1-mini"}
      [] OTHER -> FALSE

-----------------------------------------------------------------------------
(* Channels *)

\* common.ChannelStatusEnabled and the two disabled statuses of the registry
ChannelStatusEnabled == "enabled"
ChannelStatusManuallyDisabled == "manually disabled"
ChannelStatusAutoDisabled == "auto disabled"

\* mutant: the list lacks the two last video providers
unsupportedTestChannelTypesShort ==
    {"Midjourney", "MidjourneyPlus", "SunoAPI", "Kling", "Jimeng"}

unsupportedTestChannelTypes ==
    {"Midjourney", "MidjourneyPlus", "SunoAPI", "Kling", "Jimeng", "DoubaoVideo", "Vidu"}

\* constant.GetChannelTypeName: the display name of a provider type
GetChannelTypeName(type) == type

NilChannel == [Id |-> 0, Type |-> "", Status |-> "", AutoBan |-> FALSE, TestModel |-> NoString]

\* channel.GetAutoBan()
GetAutoBan(channel) == channel.AutoBan

-----------------------------------------------------------------------------
(* Endpoint resolution *)

ChatPath == "/v1/chat/completions"

\* common.GetDefaultEndpointInfo: the static table of known endpoint types.
\* The result is <<path, ok>>.
GetDefaultEndpointInfo(endpointType) ==
    CASE endpointType = "openai"           -> <<"/v1/chat/completions", TRUE>>
      [] endpointType = "openai-response"  -> <<"/v1/responses", TRUE>>
      [] endpointType = "anthropic"        -> <<"/v1/messages", TRUE>>
      [] endpointType = "gemini"           -> <<"/v1beta/models/{model}:generateContent", TRUE>>
      [] endpointType = "jina-rerank"      -> <<"/v1/rerank", TRUE>>
      [] endpointType = "image-generation" -> <<"/v1/images/generations", TRUE>>
      [] endpointType = "embeddings"       -> <<"/v1/embeddings", TRUE>>
      [] OTHER -> <<"", FALSE>>

\* relayconstant.Path2RelayMode: the relay mode of a wire path
Path2RelayMode(path) ==
    CASE path = "/v1/chat/completions"   -> "RelayModeChatCompletions"
      [] path = "/v1/embeddings"         -> "RelayModeEmbeddings"
      [] path = "/v1/images/generations" -> "RelayModeImagesGenerations"
      [] path = "/v1/rerank"             -> "RelayModeRerank"
      [] path = "/v1/responses"          -> "RelayModeResponses"
      [] OTHER -> "RelayModeUnknown"

RelayModes == {"RelayModeChatCompletions", "RelayModeEmbeddings", "RelayModeImagesGenerations",
               "RelayModeRerank", "RelayModeResponses", "RelayModeUnknown"}

\* mutant: no rule for the responses-only models
requestPathOfNoCodex(channel, testModel, endpointType) ==
    IF endpointType # ""
    THEN LET info == GetDefaultEndpointInfo(endpointType)
         IN  IF info[2] THEN info[1] ELSE ChatPath
    ELSE LET p1 == IF \/ Contains(ToLower(testModel), "embedding")
                      \/ HasPrefix(testModel, "m3e")
                      \/ Contains(testModel, "bge-")
                      \/ Contains(testModel, "embed")
                      \/ channel.Type = "MokaAI"
                   THEN "/v1/embeddings" ELSE ChatPath
         IN  IF channel.Type = "VolcEngine" /\ Contains(testModel, "seedream")
             THEN "/v1/images/generations" ELSE p1

\* mutant: the heuristics run after the look-up of the hint too
requestPathOfHintThenHeuristics(channel, testModel, endpointType) ==
    LET p0 == IF endpointType # "" /\ GetDefaultEndpointInfo(endpointType)[2]
              THEN GetDefaultEndpointInfo(endpointType)[1] ELSE ChatPath
        p1 == IF \/ Contains(ToLower(testModel), "embedding")
                 \/ HasPrefix(testModel, "m3e")
                 \/ Contains(testModel, "bge-")
                 \/ Contains(testModel, "embed")
                 \/ channel.Type = "MokaAI"
              THEN "/v1/embeddings" ELSE p0
        p2 == IF channel.Type = "VolcEngine" /\ Contains(testModel, "seedream")
              THEN "/v1/images/generations" ELSE p1
    IN  IF Contains(ToLower(testModel), "codex") THEN "/v1/responses" ELSE p2

\* testChannel, the request path (lines 166-193)
requestPathOf(channel, testModel, endpointType) ==
    IF endpointType # ""
    THEN LET info == GetDefaultEndpointInfo(endpointType)
         IN  IF info[2] THEN info[1] ELSE ChatPath
    ELSE LET p1 == IF \/ Contains(ToLower(testModel), "embedding")
                      \/ HasPrefix(testModel, "m3e")
                      \/ Contains(testModel, "bge-")
                      \/ Contains(testModel, "embed")
                      \/ channel.Type = "MokaAI"
                   THEN "/v1/embeddings" ELSE ChatPath
             p2 == IF channel.Type = "VolcEngine" /\ Contains(testModel, "seedream")
                   THEN "/v1/images/generations" ELSE p1
         IN  IF Contains(ToLower(testModel), "codex") THEN "/v1/responses" ELSE p2

\* testChannel, the relay format (lines 232-274)
relayFormatOf(path, endpointType) ==
    IF endpointType # ""
    THEN CASE endpointType = "openai"           -> "RelayFormatOpenAI"
           [] endpointType = "openai-response"  -> "RelayFormatOpenAIResponses"
           [] endpointType = "anthropic"        -> "RelayFormatClaude"
           [] endpointType = "gemini"           -> "RelayFormatGemini"
           [] endpointType = "jina-rerank"      -> "RelayFormatRerank"
           [] endpointType = "image-generation" -> "RelayFormatOpenAIImage"
           [] endpointType = "embeddings"       -> "RelayFormatEmbedding"
           [] OTHER -> "RelayFormatOpenAI"
    ELSE LET f1 == IF path = "/v1/embeddings" THEN "RelayFormatEmbedding" ELSE "RelayFormatOpenAI"
             f2 == IF path = "/v1/images/generations" THEN "RelayFormatOpenAIImage" ELSE f1
             f3 == IF path = "/v1/messages" THEN "RelayFormatClaude" ELSE f2
             f4 == IF path = "/v1beta/models/{model}:generateContent" THEN "RelayFormatGemini" ELSE f3
             f5 == IF path = "/v1/rerank" \/ path = "/rerank" THEN "RelayFormatRerank" ELSE f4
         IN  IF path = "/v1/responses" THEN "RelayFormatOpenAIResponses" ELSE f5

-----------------------------------------------------------------------------
(* Probe synthesis and override *)

\* A dto.Request: its concrete type, its model, where it came from, its token limits
Request(variant, modelName, source, maxTokens, maxCompletionTokens) ==
    [variant |-> variant, Model |-> modelName, source |-> source,
     MaxTokens |-> maxTokens, MaxCompletionTokens |-> maxCompletionTokens]

NilRequest == Request("", "", "", 0, 0)

\* mutant: every chat probe is capped at 16 tokens
tokenLimitsFlat(modelName) == <<16, 0>>

\* buildTestRequest, lines 660-670: <<MaxTokens, MaxCompletionTokens>> of a
\* synthesized chat request, 0 for a field that is left unset
tokenLimits(modelName) ==
    IF HasPrefix(modelName, "o") THEN <<0, 16>>
    ELSE IF Contains(modelName, "thinking")
    THEN IF ~Contains(modelName, "claude") THEN <<50, 0>> ELSE <<0, 0>>
    ELSE IF Contains(modelName, "gemini") THEN <<3000, 0>>
    ELSE <<16, 0>>

\* mutant: the synthesis has no rule for the responses-only models
buildTestRequestPathNoCodex(modelName, endpointType, channel) ==
    IF endpointType # ""
    THEN LET info == GetDefaultEndpointInfo(endpointType)
         IN  IF info[2] THEN info[1] ELSE ChatPath
    ELSE LET lower == ToLower(modelName)
             p1 == IF \/ Contains(lower, "embedding")
                      \/ HasPrefix(modelName, "m3e")
                      \/ Contains(modelName, "bge-")
                      \/ Contains(modelName, "embed")
                      \/ (channel # NilChannel /\ channel.Type = "MokaAI")
                   THEN "/v1/embeddings" ELSE ChatPath
         IN  IF channel # NilChannel /\ channel.Type = "VolcEngine"
                  /\ Contains(modelName, "seedream")
             THEN "/v1/images/generations" ELSE p1

\* buildTestRequest, the request path it resolves on its own (lines 610-631)
buildTestRequestPath(modelName, endpointType, channel) ==
    IF endpointType # ""
    THEN LET info == GetDefaultEndpointInfo(endpointType)
         IN  IF info[2] THEN info[1] ELSE ChatPath
    ELSE LET lower == ToLower(modelName)
             p1 == IF \/ Contains(lower, "embedding")
                      \/ HasPrefix(modelName, "m3e")
                      \/ Contains(modelName, "bge-")
                      \/ Contains(modelName, "embed")
                      \/ (channel # NilChannel /\ channel.Type = "MokaAI")
                   THEN "/v1/embeddings" ELSE ChatPath
             p2 == IF channel # NilChannel /\ channel.Type = "VolcEngine"
                        /\ Contains(modelName, "seedream")
                   THEN "/v1/images/generations" ELSE p1
         IN  IF Contains(lower, "codex") THEN "/v1/responses" ELSE p2

\* buildTestRequest (lines 606-674): the request of the relay mode of its path
buildTestRequest(modelName, endpointType, channel) ==
    LET requestPath == buildTestRequestPath(modelName, endpointType, channel)
        relayMode == Path2RelayMode(requestPath)
    IN  CASE relayMode = "RelayModeEmbeddings" -> Request("EmbeddingRequest", modelName, "synthesized", 0, 0)
          [] relayMode = "RelayModeImagesGenerations" -> Request("ImageRequest", modelName, "synthesized", 0, 0)
          [] relayMode = "RelayModeRerank" -> Request("RerankRequest", modelName, "synthesized", 0, 0)
          [] relayMode = "RelayModeResponses" -> Request("OpenAIResponsesRequest", modelName, "synthesized", 0, 0)
          [] OTHER ->
                Request("GeneralOpenAIRequest", modelName, "synthesized",
                        tokenLimits(modelName)[1], tokenLimits(modelName)[2])

\* The stored override bodies: none (nil), blank, a JSON object naming another
\* model, and text that is no JSON.
OverrideBodies == {NoString, " ", "{\"model\":\"other-model\"}", "{not json"}

\* mutant: every body decodes
UnmarshalAny(body) == <<"other-model", TRUE>>

\* json.Unmarshal of a stored body into a request struct: <<decoded model, ok>>
Unmarshal(body) ==
    IF body = "{\"model\":\"other-model\"}" THEN <<"other-model", TRUE>> ELSE <<"", FALSE>>

\* The result is <<request, err>>.
parseTestRequestOverride(body, testModel, relayFormat) ==
    LET trimmed == TrimSpace(body)
        decoded == Unmarshal(trimmed)
        into(variant) ==
            IF ~decoded[2] THEN <<NilRequest, Err("json: cannot unmarshal")>>
            ELSE <<Request(variant, testModel, "override", 0, 0), NilErr>>
    IN  IF trimmed = "" THEN <<NilRequest, Err("empty test_request_body")>>
        ELSE CASE relayFormat \in {"RelayFormatOpenAI", "RelayFormatClaude", "RelayFormatGemini"} ->
                    into("GeneralOpenAIRequest")
               [] relayFormat = "RelayFormatEmbedding" -> into("EmbeddingRequest")
               [] relayFormat = "RelayFormatOpenAIImage" -> into("ImageRequest")
               [] relayFormat = "RelayFormatRerank" -> into("RerankRequest")
               [] relayFormat = "RelayFormatOpenAIResponses" -> into("OpenAIResponsesRequest")
               [] OTHER -> <<NilRequest, Errorf("unsupported relay format for channel test override", relayFormat)>>

-----------------------------------------------------------------------------
(* Pricing *)

\* common.QuotaPerUnit
QuotaPerUnit == 500000

\* math.Round of the rational n/d (d > 0): half away from zero
Round(n, d) ==
    IF n >= 0 THEN (2 * n + d) \div (2 * d) ELSE -((2 * (-n) + d) \div (2 * d))

\* int(x) of the rational n/d (d > 0): truncation toward zero
Trunc(n, d) ==
    IF n >= 0 THEN n \div d ELSE -((-n) \div d)

\* mutant: the ratio quota is rounded once, at the end
quotaOfSingleRound(usage, priceData) ==
    IF ~priceData.UsePrice
    THEN LET q2 == Round((100 * usage.PromptTokens + usage.CompletionTokens * priceData.CompletionRatio)
                         * priceData.ModelRatio, 10000)
         IN  IF priceData.ModelRatio # 0 /\ q2 <= 0 THEN 1 ELSE q2
    ELSE Trunc(priceData.ModelPrice * QuotaPerUnit, 1000000)

\* priceData: ModelRatio and CompletionRatio in hundredths, ModelPrice in
\* millionths of a unit.  testChannel, lines 522-531.
quotaOf(usage, priceData) ==
    IF ~priceData.UsePrice
    THEN LET q1 == usage.PromptTokens + Round(usage.CompletionTokens * priceData.CompletionRatio, 100)
             q2 == Round(q1 * priceData.ModelRatio, 100)
         IN  IF priceData.ModelRatio # 0 /\ q2 <= 0 THEN 1 ELSE q2
    ELSE Trunc(priceData.ModelPrice * QuotaPerUnit, 1000000)

-----------------------------------------------------------------------------
(* One probe: testChannel *)

\* A row of the consume log (model.RecordConsumeLogParams)
AuditRecord(channelId, promptTokens, completionTokens, modelName, quota, content, useTimeSeconds, reason) ==
    [ChannelId |-> channelId, PromptTokens |-> promptTokens, CompletionTokens |-> completionTokens,
     ModelName |-> modelName, Quota |-> quota, Content |-> content,
     UseTimeSeconds |-> useTimeSeconds, Error |-> reason]

\* The rows recordFailedChannelTestLog writes: none when the context or the
\* channel is nil, else one failure row with quota 0.
recordFailedChannelTestLog(hasContext, channel, modelName, elapsedMs, reason) ==
    IF ~hasContext \/ channel = NilChannel
    THEN <<>>
    ELSE LET secs == elapsedMs \div 1000
             useTimeSeconds == IF secs < 0 THEN 0 ELSE secs
         IN  <<AuditRecord(channel.Id, 0, 0, modelName, 0, "model test (failed)", useTimeSeconds, reason)>>

\* What a run of testChannel leaves behind: the testResult it returns, the
\* rows it wrote to the consume log, the collaborators it called, in order, and
\* the request it handed to the conversion of the adaptor (NilRequest if none),
\* and the URL path of the request of its context ("" without a context).
Outcome(hasContext, localErr, newAPIError, audits, trace, request, path) ==
    [context |-> hasContext, localErr |-> localErr, newAPIError |-> newAPIError,
     audits |-> audits, trace |-> trace, request |-> request, path |-> path]

\* A return statement of the body of testChannel, before the deferred function runs
Return(hasContext, localErr, newAPIError, recordedConsumeLog, audits, testModel, trace) ==
    [context |-> hasContext, localErr |-> localErr, newAPIError |-> newAPIError,
     recordedConsumeLog |-> recordedConsumeLog, audits |-> audits,
     testModel |-> testModel, trace |-> trace, request |-> NilRequest]

\* The run handed `request` to adaptor.Convert...Request (lines 353-409)
withConverted(request, r) == [r EXCEPT !.request = request]

\* mutant: the branch reports a failure without the cause of the step
FailRecordedNoCause(hasContext, channel, testModel, env, e, apiErr, trace) ==
    Return(hasContext, Err("channel test failed"), NewError(Err("channel test failed"), apiErr.code), TRUE,
           recordFailedChannelTestLog(TRUE, channel, testModel, env.ms, "channel test failed"),
           testModel, trace)

\* An error branch that records the failure itself and sets recordedConsumeLog
FailRecorded(hasContext, channel, testModel, env, e, apiErr, trace) ==
    Return(hasContext, e, apiErr, TRUE,
           recordFailedChannelTestLog(TRUE, channel, testModel, env.ms, e.msg),
           testModel, trace)

\* info.RelayMode as relaycommon.GenRelayInfo sets it: the mode of the wire
\* path, unless the environment makes it answer another mode
GenRelayInfoMode(requestPath, env) ==
    IF env.relayMode = "" THEN Path2RelayMode(requestPath) ELSE env.relayMode

\* The request type each relay mode converts (lines 353-409)
variantOfMode(relayMode) ==
    CASE relayMode = "RelayModeEmbeddings" -> "EmbeddingRequest"
      [] relayMode = "RelayModeImagesGenerations" -> "ImageRequest"
      [] relayMode = "RelayModeRerank" -> "RerankRequest"
      [] relayMode = "RelayModeResponses" -> "OpenAIResponsesRequest"
      [] OTHER -> "GeneralOpenAIRequest"

invalidRequestTypeError(relayMode) ==
    CASE relayMode = "RelayModeEmbeddings" -> Err("invalid embedding request type")
      [] relayMode = "RelayModeImagesGenerations" -> Err("invalid image request type")
      [] relayMode = "RelayModeRerank" -> Err("invalid rerank request type")
      [] relayMode = "RelayModeResponses" -> Err("invalid response request type")
      [] OTHER -> Err("invalid general request type")

convertEntryPoint(relayMode) ==
    CASE relayMode = "RelayModeEmbeddings" -> "ConvertEmbeddingRequest"
      [] relayMode = "RelayModeImagesGenerations" -> "ConvertImageRequest"
      [] relayMode = "RelayModeRerank" -> "ConvertRerankRequest"
      [] relayMode = "RelayModeResponses" -> "ConvertOpenAIResponsesRequest"
      [] OTHER -> "ConvertOpenAIRequest"

\* mutant: only a server error counts as a bad response
badStatusServerError(statusCode) == statusCode >= 500

\* resp != nil && httpResp.StatusCode != http.StatusOK (lines 466-468); a status
\* code of 0 stands for a nil response
badStatus(statusCode) == statusCode # 0 /\ statusCode # 200

\* testChannel from the outbound call on (lines 453-557)
testChannelSend(channel, testModel, originModel, env, priceData, trace0) ==
    LET t1 == Append(trace0, "DoRequest")
    IN
    IF "DoRequest" \in env.fails
    THEN FailRecorded(TRUE, channel, testModel, env, Err("do request failed"),
                      NewError(Err("do request failed"), "do_request_failed"), t1)
    ELSE
    IF badStatus(env.statusCode)
    THEN FailRecorded(TRUE, channel, testModel, env, Err(env.reason),
                      NewError(Err(env.reason), "bad_response"), Append(t1, "RelayErrorHandler"))
    ELSE
    LET t2 == Append(t1, "DoResponse")
    IN
    IF "DoResponse" \in env.fails
    THEN FailRecorded(TRUE, channel, testModel, env, Err("do response failed"),
                      NewError(Err("do response failed"), "do_response_failed"), t2)
    ELSE
    IF env.usageNil
    THEN FailRecorded(TRUE, channel, testModel, env, Err("usage is nil"),
                      NewError(Err("usage is nil"), "bad_response_body"), t2)
    ELSE
    LET t3 == Append(t2, "ReadAll")
    IN
    IF "ReadAll" \in env.fails
    THEN FailRecorded(TRUE, channel, testModel, env, Err("read response body failed"),
                      NewError(Err("read response body failed"), "read_response_body_failed"), t3)
    ELSE
    Return(TRUE, NilErr, NilAPIError, TRUE,
           <<AuditRecord(channel.Id, env.usage.PromptTokens, env.usage.CompletionTokens,
                         originModel, quotaOf(env.usage, priceData), "model test",
                         env.ms \div 1000, "")>>,
           testModel, Append(t3, "RecordConsumeLog"))

\* mutant: the type assertion never fails
variantMismatchNever(request, relayMode) == FALSE

\* The type assertion of the case of info.RelayMode fails (lines 353-409)
variantMismatch(request, relayMode) == request.variant # variantOfMode(relayMode)

\* testChannel from the conversion on (lines 349-451)
testChannelConvert(channel, testModel, originModel, request, relayMode, env, priceData, trace0) ==

    IF variantMismatch(request, relayMode)
    THEN Return(TRUE, invalidRequestTypeError(relayMode),
                NewError(invalidRequestTypeError(relayMode), "convert_request_failed"),
                FALSE, <<>>, testModel, trace0)
    ELSE
    withConverted(request,
    LET t1 == Append(trace0, convertEntryPoint(relayMode))
    IN
    IF "Convert" \in env.fails
    THEN FailRecorded(TRUE, channel, testModel, env, Err("convert request failed"),
                      NewError(Err("convert request failed"), "convert_request_failed"), t1)
    ELSE
    LET t2 == Append(t1, "json.Marshal")
    IN
    IF "Marshal" \in env.fails
    THEN FailRecorded(TRUE, channel, testModel, env, Err("json marshal failed"),
                      NewError(Err("json marshal failed"), "json_marshal_failed"), t2)
    ELSE
    IF env.paramOverride /\ "ApplyParamOverride" \in env.fails
    THEN FailRecorded(TRUE, channel, testModel, env, Err("param override invalid"),
                      NewError(Err("param override invalid"), "channel_param_override_invalid"),
                      Append(t2, "ApplyParamOverride"))
    ELSE
    testChannelSend(channel, testModel, originModel, env, priceData,
                    IF env.paramOverride THEN Append(t2, "ApplyParamOverride") ELSE t2))

\* mutant: a stored body is never used
hasOverrideNever(testRequestBody) == FALSE

\* testRequestBody != nil && strings.TrimSpace(*testRequestBody) != "" (line 281)
hasOverride(testRequestBody) ==
    testRequestBody # NoString /\ TrimSpace(testRequestBody) # ""

\* testChannel after the test model is resolved and the deferred function is
\* registered (lines 166-347)
testChannelBody(channel, testModel, endpointType, env) ==
    LET requestPath == requestPathOf(channel, testModel, endpointType)
        t1 == <<"GetUserCache">>
    IN
    IF "GetUserCache" \in env.fails
    THEN FailRecorded(FALSE, channel, testModel, env, Err("get user cache failed"), NilAPIError, t1)
    ELSE
    LET t2 == Append(t1, "SetupContextForSelectedChannel")
    IN
    IF "SetupContextForSelectedChannel" \in env.fails
    THEN FailRecorded(TRUE, channel, testModel, env, Err("setup context failed"),
                      NewError(Err("setup context failed"), "setup_context_failed"), t2)
    ELSE
    LET relayFormat == relayFormatOf(requestPath, endpointType)
        synthesized == buildTestRequest(testModel, endpointType, channel)
        t3 == Append(t2, "GetModelTestRequestBodyByName")
    IN
    IF "GetModelTestRequestBodyByName" \in env.fails
    THEN FailRecorded(TRUE, channel, testModel, env, Err("get test request body failed"),
                      NewError(Err("get test request body failed"), "invalid_request"), t3)
    ELSE
    LET useOverride == hasOverride(env.override)
        parsed == parseTestRequestOverride(env.override, testModel, relayFormat)
    IN
    IF useOverride /\ parsed[2] # NilErr
    THEN FailRecorded(TRUE, channel, testModel, env, parsed[2],
                      NewError(parsed[2], "invalid_request"), t3)
    ELSE
    LET request == IF useOverride THEN parsed[1] ELSE synthesized
        t4 == Append(t3, "GenRelayInfo")
    IN
    IF "GenRelayInfo" \in env.fails
    THEN FailRecorded(TRUE, channel, testModel, env, Err("gen relay info failed"),
                      NewError(Err("gen relay info failed"), "gen_relay_info_failed"), t4)
    ELSE
    LET t5 == Append(t4, "ModelMappedHelper")
    IN
    IF "ModelMappedHelper" \in env.fails
    THEN FailRecorded(TRUE, channel, testModel, env, Err("model mapped failed"),
                      NewError(Err("model mapped failed"), "channel_model_mapped_error"), t5)
    ELSE
    LET upstream == IF env.upstream = "" THEN testModel ELSE env.upstream
        mapped == [request EXCEPT !.Model = upstream]
        t6 == Append(t5, "GetAdaptor")
    IN
    IF "GetAdaptor" \in env.fails
    THEN FailRecorded(TRUE, channel, upstream, env, Errorf("invalid api type, adaptor is nil", channel.Type),
                      NewError(Errorf("invalid api type, adaptor is nil", channel.Type), "invalid_api_type"), t6)
    ELSE
    LET t7 == Append(t6, "ModelPriceHelper")
    IN
    IF "ModelPriceHelper" \in env.fails
    THEN FailRecorded(TRUE, channel, upstream, env, Err("model price failed"),
                      NewError(Err("model price failed"), "model_price_error"), t7)
    ELSE
    testChannelConvert(channel, upstream, testModel, mapped, GenRelayInfoMode(requestPath, env),
                       env, env.priceData, t7)

\* mutant: only the nil check
hasStoredTestModelNilOnly(channel) ==
    channel.TestModel # NoString

\* channel.TestModel != nil && *channel.TestModel != "" (line 153)
hasStoredTestModel(channel) ==
    channel.TestModel # NoString /\ channel.TestModel # ""

\* mutant: the deferred function records whatever the body recorded
testChannelDeferredAlways(channel, env, r) ==
    r.audits \o recordFailedChannelTestLog(TRUE, channel, r.testModel, env.ms, "")

\* The deferred function of testChannel (lines 159-164)
testChannelDeferred(channel, env, r) ==
    IF r.recordedConsumeLog
    THEN r.audits
    ELSE r.audits \o recordFailedChannelTestLog(TRUE, channel, r.testModel, env.ms, "")

testChannel(channel, testModelArg, endpointType, env) ==
    IF channel.Type \in unsupportedTestChannelTypes
    THEN Outcome(FALSE, Errorf("channel test is not supported", GetChannelTypeName(channel.Type)),
                 NilAPIError, <<>>, <<>>, NilRequest, "")
    ELSE
    LET trimmed == TrimSpace(testModelArg)
    IN
    IF trimmed = "" /\ ~hasStoredTestModel(channel)
    THEN Outcome(FALSE, errSkipChannelTest, NilAPIError, <<>>, <<>>, NilRequest, "")
    ELSE
    LET testModel == IF trimmed = "" THEN TrimSpace(channel.TestModel) ELSE trimmed
        r == testChannelBody(channel, testModel, endpointType, env)
    IN  Outcome(r.context, r.localErr, r.newAPIError, testChannelDeferred(channel, env, r), r.trace,
                r.request,
                IF r.context THEN requestPathOf(channel, testModel, endpointType) ELSE "")

-----------------------------------------------------------------------------
(* The environment of a probe *)

Usage(promptTokens, completionTokens) ==
    [PromptTokens |-> promptTokens, CompletionTokens |-> completionTokens]

PriceData(usePrice, modelRatio, completionRatio, modelPrice) ==
    [UsePrice |-> usePrice, ModelRatio |-> modelRatio, CompletionRatio |-> completionRatio,
     ModelPrice |-> modelPrice]

\* Every collaborator answers well: the provider returns 200 with usage
\* {prompt 100, completion 50}, priced by ratio (model 2.00, completion 1.50).
BaseEnv ==
    [fails |-> {}, override |-> NoString, relayMode |-> "", upstream |-> "",
     paramOverride |-> FALSE, statusCode |-> 200, reason |-> "", usageNil |-> FALSE,
     usage |-> Usage(100, 50), priceData |-> PriceData(FALSE, 200, 150, 0),
     ms |-> 1500, shouldDisable |-> FALSE, shouldEnable |-> TRUE]

Collaborators ==
    {"GetUserCache", "SetupContextForSelectedChannel", "GetModelTestRequestBodyByName",
     "GenRelayInfo", "ModelMappedHelper", "GetAdaptor", "ModelPriceHelper", "Convert",
     "Marshal", "DoRequest", "DoResponse", "ReadAll"}

\* The elapsed times of a probe, in milliseconds: fast, over a 5 s threshold,
\* at and over the 10000000 ms stand-in of a threshold of 0
ElapsedValues == {1500, 6000, 10000000, 10000001}

BadResponseEnv == [BaseEnv EXCEPT !.statusCode = 503, !.reason = "upstream error: service unavailable"]

ProbeEnvs ==
    {[BaseEnv EXCEPT !.ms = t] : t \in ElapsedValues}
    \cup {[BaseEnv EXCEPT !.fails = {c}] : c \in Collaborators}
    \cup {[BaseEnv EXCEPT !.fails = {c, "DoRequest"}] : c \in {"GetUserCache", "ModelMappedHelper"}}
    \cup {[BaseEnv EXCEPT !.paramOverride = TRUE, !.fails = f] : f \in {{}, {"ApplyParamOverride"}}}
    \cup {[BaseEnv EXCEPT !.override = b] : b \in OverrideBodies}
    \cup {[BaseEnv EXCEPT !.relayMode = m] : m \in RelayModes}
    \cup {[BaseEnv EXCEPT !.override = "{\"model\":\"other-model\"}", !.relayMode = "RelayModeRerank"]}
    \cup {[BaseEnv EXCEPT !.upstream = "upstream-model", !.fails = f] : f \in {{}, {"DoRequest"}, {"ModelPriceHelper"}}}
    \cup {[BaseEnv EXCEPT !.upstream = "upstream-model", !.relayMode = "RelayModeRerank"]}
    \cup {[BadResponseEnv EXCEPT !.ms = t] : t \in ElapsedValues}
    \cup {[BadResponseEnv EXCEPT !.statusCode = 404, !.reason = "upstream error: not found"]}
    \cup {[BaseEnv EXCEPT !.fails = {"ModelPriceHelper", "Convert", "DoRequest"}]}
    \cup {[BaseEnv EXCEPT !.statusCode = 0]}
    \cup {[BaseEnv EXCEPT !.usageNil = TRUE]}
    \cup {[BaseEnv EXCEPT !.usage = u, !.priceData = pd] :
            u \in {Usage(0, 0), Usage(100, 50), Usage(3, 1)},
            pd \in {PriceData(FALSE, 200, 150, 0), PriceData(FALSE, 1, 100, 0),
                    PriceData(FALSE, 0, 100, 0), PriceData(FALSE, 50, 150, 0),
                    PriceData(FALSE, 100, -150, 0),
                    PriceData(TRUE, 0, 0, 2000), PriceData(TRUE, 0, 0, 3)}}
    \cup {[BaseEnv EXCEPT !.override = "{\"model\":\"other-model\"}", !.upstream = "upstream-model"]}

-----------------------------------------------------------------------------
(* The on-demand probe: TestChannel *)

\* The JSON body of a response (gin.H); time in milliseconds
Response(success, message, time, skipped) ==
    [success |-> success, message |-> message, time |-> time, skipped |-> skipped]

\* mutant: a classified error makes the handler disable the channel
TestChannelRespondDisabling(channel, result, milliseconds) ==
    [response |-> Response(result.localErr = NilErr /\ result.newAPIError = NilAPIError,
                           result.localErr, milliseconds, FALSE),
     updateResponseTime |-> <<milliseconds>>,
     disable |-> IF result.newAPIError # NilAPIError THEN <<channel.Id>> ELSE <<>>,
     enable |-> <<>>]

\* TestChannel once the channel is loaded (lines 695-733): the response it
\* writes, the response times it stores (go channel.UpdateResponseTime) and
\* the disable and enable calls it issues for the channel: none on any path
TestChannelRespond(channel, result, milliseconds) ==
    IF result.localErr # NilErr
    THEN IF IsSkip(result.localErr)
         THEN [response |-> Response(TRUE, NilErr, 0, TRUE), updateResponseTime |-> <<>>,
               disable |-> <<>>, enable |-> <<>>]
         ELSE [response |-> Response(FALSE, result.localErr, 0, FALSE), updateResponseTime |-> <<>>,
               disable |-> <<>>, enable |-> <<>>]
    ELSE IF result.newAPIError # NilAPIError
         THEN [response |-> Response(FALSE, result.newAPIError.err, milliseconds, FALSE),
               updateResponseTime |-> <<milliseconds>>,
               disable |-> <<>>, enable |-> <<>>]
         ELSE [response |-> Response(TRUE, NilErr, milliseconds, FALSE),
               updateResponseTime |-> <<milliseconds>>,
               disable |-> <<>>, enable |-> <<>>]

\* The provider types of the channels probed on demand
ProbeTypes == {"OpenAI", "MokaAI", "VolcEngine", "Midjourney", "MidjourneyPlus", "SunoAPI",
               "Kling", "Jimeng", "DoubaoVideo", "Vidu"}

StoredTestModels == {NoString, "", " ", "gpt-4", "text-embedding-3-small", "seedream-3",
                     "seedream-embed", "codex-seedream-embed"}

Channel(id, type, status, autoBan, testModel) ==
    [Id |-> id, Type |-> type, Status |-> status, AutoBan |-> autoBan, TestModel |-> testModel]

\* The channels an on-demand probe may load (model.CacheGetChannel)
ProbeChannels ==
    {Channel(7, t, ChannelStatusEnabled, TRUE, m) : t \in ProbeTypes, m \in StoredTestModels}

ModelArgs == {"", " ", " gpt-4 ", "codex-mini"}

EndpointArgs == {"", "embeddings", "no-such-endpoint"}

\* The endpoint types of the static table (constant.EndpointType)
EndpointTypes == {"openai", "openai-response", "anthropic", "gemini", "jina-rerank",
                  "image-generation", "embeddings"}

\* The requests the handler is given: the id path parameter, what the channel
\* lookups answer, the query parameters, and the environment of the probe
ProbeInput(id, lookup, channel, model, endpointType, env) ==
    [id |-> id, lookup |-> lookup, channel |-> channel, model |-> model,
     endpoint_type |-> endpointType, env |-> env]

ProbeInputs ==
    {ProbeInput("7", "cache", ch, m, e, env) :
        ch \in ProbeChannels, m \in ModelArgs, e \in EndpointArgs, env \in ProbeEnvs}
    \cup {ProbeInput(id, lookup, Channel(7, "OpenAI", ChannelStatusEnabled, TRUE, "gpt-4"), "", "", BaseEnv) :
        id \in {"7", "abc"}, lookup \in {"cache", "db", "missing"}}
    \cup {ProbeInput("7", "cache", Channel(7, t, ChannelStatusEnabled, TRUE, NoString), m, e, BaseEnv) :
        t \in {"OpenAI", "MokaAI", "VolcEngine"}, m \in ModelNames, e \in EndpointTypes \cup EndpointArgs}

NoProbe == [pc |-> "none"]

\* The process before any call of AutomaticallyTestChannels
NoScheduler == [pc |-> <<>>]

\* The state of the handler before it runs
ProbePending(in) == [pc |-> "pending", in |-> in]

\* strconv.Atoi(c.Param("id")) succeeds
Atoi(id) == id \in {"7"}

\* The handler TestChannel (lines 676-733)
TestChannel ==
    /\ probe.pc = "pending"
    /\ LET in == probe.in
           result == testChannel(in.channel, in.model, in.endpoint_type, in.env)
           out == TestChannelRespond(in.channel, result, in.env.ms)
       IN  IF ~Atoi(in.id)
           THEN probe' = [pc |-> "rejected", in |-> in, response |-> Response(FALSE, Err("invalid id"), 0, FALSE),
                          disable |-> <<>>, enable |-> <<>>]
           ELSE IF in.lookup = "missing"
           THEN probe' = [pc |-> "rejected", in |-> in, response |-> Response(FALSE, Err("channel not found"), 0, FALSE),
                          disable |-> <<>>, enable |-> <<>>]
           ELSE probe' = [pc |-> "done", in |-> in, result |-> result,
                          response |-> out.response, updateResponseTime |-> out.updateResponseTime,
                          disable |-> out.disable, enable |-> out.enable]
    /\ UNCHANGED <<testAllChannelsRunning, sweeps, options, last, auto>>

InitProbe ==
    /\ testAllChannelsRunning = FALSE
    /\ sweeps = <<>>
    /\ options = [ChannelDisableThreshold |-> 0, AutomaticDisableChannelEnabled |-> FALSE]
    /\ last = [op |-> "none"]
    /\ probe \in {ProbePending(in) : in \in ProbeInputs}
    /\ auto = NoScheduler

NextProbe == TestChannel

ProbeSpec == InitProbe /\ [][NextProbe]_vars

-----------------------------------------------------------------------------
(* The fleet sweep: testAllChannels *)

\* service.ShouldDisableChannel(channel.Type, newAPIError): the verdict of the
\* error-classification policy, an answer of the environment
ShouldDisableChannel(type, newAPIError, env) == env.shouldDisable

\* service.ShouldEnableChannel(channel.Status, shouldBanChannel): the enable
\* policy never approves a banned probe; otherwise its verdict on the status
\* is an answer of the environment
ShouldEnableChannel(status, shouldBanChannel, env) == ~shouldBanChannel /\ env.shouldEnable

\* common.ChannelDisableThreshold is held in units of 0.1 ms (1/10000 s);
\* lines 751-754: int64(threshold * 1000) milliseconds, and 0 replaced
disableThresholdOf(channelDisableThreshold) ==
    LET disableThreshold == channelDisableThreshold \div 10
    IN  IF disableThreshold = 0 THEN 10000000 ELSE disableThreshold

\* mutant: the latency check does not look at the verdict of the error policy
latencyBanIndependent(automaticDisableChannelEnabled, shouldBanChannel, milliseconds, disableThreshold) ==
    automaticDisableChannelEnabled /\ milliseconds > disableThreshold

\* lines 781-787: the latency check sets shouldBanChannel
latencyBan(automaticDisableChannelEnabled, shouldBanChannel, milliseconds, disableThreshold) ==
    automaticDisableChannelEnabled /\ ~shouldBanChannel /\ milliseconds > disableThreshold

\* mutant: the status of the channel in the snapshot is not consulted
disableConditionAnyStatus(isChannelEnabled, shouldBanChannel, autoBan) ==
    shouldBanChannel /\ autoBan

\* mutant: the auto-ban flag of the channel is not consulted
disableConditionNoAutoBan(isChannelEnabled, shouldBanChannel, autoBan) ==
    isChannelEnabled /\ shouldBanChannel

\* line 790
disableCondition(isChannelEnabled, shouldBanChannel, autoBan) ==
    isChannelEnabled /\ shouldBanChannel /\ autoBan

\* mutant: the status of the channel in the snapshot is not consulted
enableConditionAnyStatus(isChannelEnabled, approved) ==
    approved

\* line 795
enableCondition(isChannelEnabled, approved) ==
    ~isChannelEnabled /\ approved

\* mutant: a failed probe ends the loop
rangeNextAbortOnFailure(idx, n, result) ==
    IF result.localErr # NilErr /\ ~IsSkip(result.localErr) THEN n + 1 ELSE idx + 1

\* for _, channel := range channels (line 763): the index after idx in a slice
\* of n channels, whatever the probe of channel idx returned
rangeNext(idx, n, result) == idx + 1

\* One iteration of the loop of the sweep, once testChannel has returned
\* `result` (lines 767-800)
sweepDecide(channel, result, disableThreshold, automaticDisableChannelEnabled, env) ==
    LET isChannelEnabled == channel.Status = ChannelStatusEnabled
        milliseconds == env.ms
        errorBan == IF result.newAPIError # NilAPIError
                    THEN ShouldDisableChannel(channel.Type, result.newAPIError, env)
                    ELSE FALSE
        slow == latencyBan(automaticDisableChannelEnabled, errorBan, milliseconds, disableThreshold)
        shouldBanChannel == errorBan \/ slow
        newAPIError == IF slow
                       THEN NewError(Err("response time exceeds threshold"), "channel_response_time_exceeded")
                       ELSE result.newAPIError
        approved == ShouldEnableChannel(channel.Status, shouldBanChannel, env)
    IN  IF IsSkip(result.localErr)
        THEN [skipped |-> TRUE, result |-> result, isChannelEnabled |-> isChannelEnabled,
              milliseconds |-> 0, shouldBanChannel |-> FALSE, latencyBanned |-> FALSE,
              disable |-> <<>>, enable |-> <<>>, updateResponseTime |-> <<>>, slept |-> FALSE]
        ELSE [skipped |-> FALSE, result |-> result, isChannelEnabled |-> isChannelEnabled,
              milliseconds |-> milliseconds, shouldBanChannel |-> shouldBanChannel,
              latencyBanned |-> slow,
              disable |-> IF disableCondition(isChannelEnabled, shouldBanChannel, GetAutoBan(channel))
                          THEN <<[ChannelId |-> channel.Id, ChannelType |-> channel.Type,
                                  AutoBan |-> GetAutoBan(channel), err |-> newAPIError]>>
                          ELSE <<>>,
              enable |-> IF enableCondition(isChannelEnabled, approved)
                         THEN <<channel.Id>> ELSE <<>>,
              updateResponseTime |-> <<milliseconds>>, slept |-> TRUE]

\* One iteration of the loop of the sweep (lines 764-800)
sweepIteration(channel, disableThreshold, automaticDisableChannelEnabled, env) ==
    sweepDecide(channel, testChannel(channel, "", "", env),
                disableThreshold, automaticDisableChannelEnabled, env)

\* The registry rows a sweep may load: every combination of provider type,
\* status, auto-ban flag and stored test model
FleetTypes == <<"OpenAI", "Midjourney">>
FleetStatuses == <<ChannelStatusEnabled, ChannelStatusAutoDisabled, ChannelStatusManuallyDisabled>>
FleetAutoBan == <<TRUE, FALSE>>
FleetTestModels == <<"gpt-4", NoString>>

NumRows == Len(FleetTypes) * Len(FleetStatuses) * Len(FleetAutoBan) * Len(FleetTestModels)

Row(i) ==
    LET k == i - 1
        a == k % Len(FleetTypes)
        b == (k \div Len(FleetTypes)) % Len(FleetStatuses)
        c == (k \div (Len(FleetTypes) * Len(FleetStatuses))) % Len(FleetAutoBan)
        d == k \div (Len(FleetTypes) * Len(FleetStatuses) * Len(FleetAutoBan))
    IN  Channel(i, FleetTypes[a + 1], FleetStatuses[b + 1], FleetAutoBan[c + 1], FleetTestModels[d + 1])

\* What model.GetAllChannels may return: up to MaxFleet consecutive rows
Fleets ==
    {[j \in 1..n |-> Row(((lo + j - 2) % NumRows) + 1)] : lo \in 1..NumRows, n \in 0..MaxFleet}

\* The environments of the probes of a sweep
SweepEnvs ==
    {[BaseEnv EXCEPT !.ms = t, !.shouldEnable = e] : t \in ElapsedValues, e \in BOOLEAN}
    \cup {[BaseEnv EXCEPT !.fails = {c}, !.shouldDisable = d] :
            c \in {"GetUserCache", "DoRequest"}, d \in BOOLEAN}
    \cup {[BadResponseEnv EXCEPT !.ms = t, !.shouldDisable = d] : t \in {1500, 6000}, d \in BOOLEAN}
    \cup {[BaseEnv EXCEPT !.relayMode = "RelayModeEmbeddings", !.shouldDisable = d] : d \in BOOLEAN}

\* The fleets and the environments of the sweeps that run beside the scheduler:
\* the first two rows of the registry, a provider that answers well or badly
SchedulerFleets == {f \in Fleets : \A j \in 1..Len(f) : f[j].Id <= Len(FleetTypes)}

SchedulerEnvs == {BaseEnv, [BadResponseEnv EXCEPT !.shouldDisable = TRUE]}

\* The ids of a slice of channels, in order
Ids(channels) == [j \in 1..Len(channels) |-> channels[j].Id]

\* A sweep goroutine (the function handed to gopool.Go): the snapshot, the
\* position of the loop, and what the sweep has done so far
Sweep(channels, notify, disableThreshold) ==
    [channels |-> channels, idx |-> 1, notify |-> notify,
     disableThreshold |-> disableThreshold, probed |-> <<>>, outcomes |-> <<>>,
     pc |-> "loop", sleeps |-> 0]

\* mutant: the flag is not consulted
alreadyRunningNever(running) == FALSE

\* if testAllChannelsRunning (line 741)
alreadyRunning(running) == running

\* What model.GetAllChannels answers: an error, or a slice of channels
LoadError == [err |-> Err("get all channels failed"), channels |-> <<>>]

Loaded(channels) == [err |-> NilErr, channels |-> channels]

\* testAllChannels(notify) (lines 738-808) up to its return; `load` is what
\* model.GetAllChannels answers
testAllChannels(notify, load) ==
    IF alreadyRunning(testAllChannelsRunning)
    THEN /\ last' = [op |-> "testAllChannels", notify |-> notify,
                     runningBefore |-> testAllChannelsRunning,
                     err |-> Err("test already running"), started |-> FALSE]
         /\ UNCHANGED <<testAllChannelsRunning, sweeps>>
    ELSE /\ testAllChannelsRunning' = TRUE
         /\ IF load.err # NilErr
            THEN /\ last' = [op |-> "testAllChannels", notify |-> notify,
                             runningBefore |-> testAllChannelsRunning,
                             err |-> load.err, started |-> FALSE]
                 /\ UNCHANGED sweeps
            ELSE /\ sweeps' = Append(sweeps, Sweep(load.channels, notify,
                                        disableThresholdOf(options.ChannelDisableThreshold)))
                 /\ last' = [op |-> "testAllChannels", notify |-> notify,
                             runningBefore |-> testAllChannelsRunning,
                             err |-> NilErr, started |-> TRUE]

\* A call of testAllChannels: by the handler TestAllChannels (notify) or by
\* the scheduler (no notify)
CallTestAllChannels ==
    /\ Len(sweeps) < MaxSweeps
    /\ \E notify \in BOOLEAN, load \in {LoadError} \cup {Loaded(f) : f \in Fleets} :
          testAllChannels(notify, load)
    /\ UNCHANGED <<options, probe, auto>>

Remove(seq, i) == [j \in 1..(Len(seq) - 1) |-> IF j < i THEN seq[j] ELSE seq[j + 1]]

\* The terminal state of a probe: Skipped, Failed or Succeeded
outcomeKind(result) ==
    IF result.localErr = NilErr THEN "Succeeded"
    ELSE IF IsSkip(result.localErr) THEN "Skipped" ELSE "Failed"

\* mutant: the loop goes on to the next channel without sleeping
afterProbeNoSleep(skipped) == "loop"

\* Where the loop stands after testChannel returned: a skipped probe continues
\* with the next channel (line 768), any other reaches time.Sleep (line 800)
afterProbe(skipped) == IF skipped THEN "loop" ELSE "sleep"

\* mutant: the notification is sent whatever notify says
notifyRootUserAlways(notify) == 1

\* The calls of service.NotifyRootUser a sweep makes after its loop (lines 803-805)
notifyRootUser(notify) == IF notify THEN 1 ELSE 0

\* A sweep goroutine probes its next channel: one iteration of the loop, up
\* to its time.Sleep
SweepProbeIn(envs) ==
    /\ \E i \in 1..Len(sweeps), env \in envs :
          /\ sweeps[i].pc = "loop"
          /\ sweeps[i].idx <= Len(sweeps[i].channels)
          /\ \E it \in {sweepIteration(sweeps[i].channels[sweeps[i].idx], sweeps[i].disableThreshold,
                                       options.AutomaticDisableChannelEnabled, env)} :
                /\ sweeps' = [sweeps EXCEPT
                                 ![i].idx = rangeNext(@, Len(sweeps[i].channels), it.result),
                                 ![i].probed = Append(@, sweeps[i].channels[sweeps[i].idx].Id),
                                 ![i].outcomes = Append(@, outcomeKind(it.result)),
                                 ![i].pc = afterProbe(it.skipped)]
                /\ last' = [op |-> "probe", channel |-> sweeps[i].channels[sweeps[i].idx],
                            env |-> env, disableThreshold |-> sweeps[i].disableThreshold,
                            automaticDisable |-> options.AutomaticDisableChannelEnabled,
                            it |-> it]
    /\ UNCHANGED <<testAllChannelsRunning, options, probe, auto>>

SweepProbe == SweepProbeIn(SweepEnvs)

\* time.Sleep(common.RequestInterval) of a sweep goroutine returns (line 800)
SweepWake ==
    /\ \E i \in 1..Len(sweeps) :
          /\ sweeps[i].pc = "sleep"
          /\ sweeps' = [sweeps EXCEPT ![i].pc = "loop", ![i].sleeps = @ + 1]
          /\ last' = [op |-> "wake", channel |-> sweeps[i].channels[sweeps[i].idx - 1].Id]
    /\ UNCHANGED <<testAllChannelsRunning, options, probe, auto>>

\* A sweep goroutine leaves the loop: the notification, then the deferred
\* release of the flag (lines 757-761, 803-805)
SweepExit ==
    \E i \in 1..Len(sweeps) :
       LET g == sweeps[i]
       IN  /\ g.pc = "loop"
           /\ g.idx > Len(g.channels)
           /\ testAllChannelsRunning' = FALSE
           /\ sweeps' = Remove(sweeps, i)
           /\ last' = [op |-> "exit", snapshot |-> Ids(g.channels), probed |-> g.probed,
                       outcomes |-> g.outcomes,
                       notify |-> g.notify,
                       sleeps |-> g.sleeps,
                       notifications |-> notifyRootUser(g.notify)]
           /\ UNCHANGED <<options, probe, auto>>

ThresholdOptions == {0, 4, 50000}

Init ==
    /\ testAllChannelsRunning = FALSE
    /\ sweeps = <<>>
    /\ options \in [ChannelDisableThreshold : ThresholdOptions,
                    AutomaticDisableChannelEnabled : BOOLEAN]
    /\ last = [op |-> "none"]
    /\ probe = NoProbe
    /\ auto = NoScheduler

Next ==
    \/ CallTestAllChannels
    \/ SweepProbe
    \/ SweepWake
    \/ SweepExit

Spec == Init /\ [][Next]_vars

-----------------------------------------------------------------------------
(* The unattended scheduler: AutomaticallyTestChannels *)

\* The goroutines that call AutomaticallyTestChannels
Callers == 1..MaxCallers

\* Where a caller stands inside the function handed to autoTestChannelsOnce.Do:
\* the read of the setting (line 831), the one-minute sleep (line 832), the
\* interval sleep (line 837), the read of the setting after a sweep (line 842)
LoopPcs == {"poll", "sleepMinute", "sleepInterval", "recheck"}

\* The process: common.IsMasterNode, the monitor setting AutoTestChannelEnabled,
\* autoTestChannelsOnce (its done flag and whether its mutex is held), and the
\* position of each caller
Scheduler(isMasterNode, autoTestChannelEnabled) ==
    [IsMasterNode |-> isMasterNode, AutoTestChannelEnabled |-> autoTestChannelEnabled,
     once |-> [done |-> FALSE, m |-> FALSE],
     pc |-> [c \in Callers |-> "idle"]]

\* mutant: the mutex of the Once lets every caller in
onceMutexFreeAlways(once) == TRUE

\* sync.Once.doSlow: o.m.Lock() returns only while no caller holds the mutex
onceMutexFree(once) == ~once.m

\* A goroutine calls AutomaticallyTestChannels (lines 824-829): it returns on a
\* node that is not the master and when the Once is done, else it goes for the
\* mutex of the Once
AutomaticallyTestChannels(c) ==
    /\ auto.pc[c] = "idle"
    /\ auto' = [auto EXCEPT !.pc[c] = IF ~auto.IsMasterNode \/ auto.once.done
                                      THEN "returned" ELSE "lock"]
    /\ last' = [op |-> "AutomaticallyTestChannels", caller |-> c]
    /\ UNCHANGED <<testAllChannelsRunning, sweeps, options, probe>>

\* autoTestChannelsOnce.Do (line 829): the caller that gets the mutex runs the
\* function, which never returns, so the mutex is never released and done is
\* never set
OnceDo(c) ==
    /\ auto.pc[c] = "lock"
    /\ onceMutexFree(auto.once)
    /\ auto' = [auto EXCEPT !.once.m = TRUE,
                            !.pc[c] = IF auto.once.done THEN "returned" ELSE "poll"]
    /\ last' = [op |-> "Do", caller |-> c]
    /\ UNCHANGED <<testAllChannelsRunning, sweeps, options, probe>>

\* The outer loop reads the setting (lines 831-834)
SchedulerPoll(c) ==
    /\ auto.pc[c] = "poll"
    /\ auto' = [auto EXCEPT !.pc[c] = IF ~auto.AutoTestChannelEnabled
                                      THEN "sleepMinute" ELSE "sleepInterval"]
    /\ last' = [op |-> "poll", caller |-> c, enabled |-> auto.AutoTestChannelEnabled]
    /\ UNCHANGED <<testAllChannelsRunning, sweeps, options, probe>>

\* time.Sleep(1 * time.Minute) returns (lines 832-833)
SchedulerWakeMinute(c) ==
    /\ auto.pc[c] = "sleepMinute"
    /\ auto' = [auto EXCEPT !.pc[c] = "poll"]
    /\ last' = [op |-> "minute", caller |-> c]
    /\ UNCHANGED <<testAllChannelsRunning, sweeps, options, probe>>

\* The interval sleep returns and the loop calls testAllChannels(false)
\* (lines 837-841)
SchedulerRun(c) ==
    /\ auto.pc[c] = "sleepInterval"
    /\ Len(sweeps) < MaxSweeps
    /\ \E load \in {LoadError} \cup {Loaded(f) : f \in SchedulerFleets} :
          testAllChannels(FALSE, load)
    /\ auto' = [auto EXCEPT !.pc[c] = "recheck"]
    /\ UNCHANGED <<options, probe>>

\* The inner loop reads the setting after the sweep call (lines 842-844)
SchedulerRecheck(c) ==
    /\ auto.pc[c] = "recheck"
    /\ auto' = [auto EXCEPT !.pc[c] = IF ~auto.AutoTestChannelEnabled
                                      THEN "poll" ELSE "sleepInterval"]
    /\ last' = [op |-> "recheck", caller |-> c, enabled |-> auto.AutoTestChannelEnabled]
    /\ UNCHANGED <<testAllChannelsRunning, sweeps, options, probe>>

\* An administrator changes the monitor setting AutoTestChannelEnabled
UpdateMonitorSetting ==
    /\ \E b \in BOOLEAN :
          /\ b # auto.AutoTestChannelEnabled
          /\ auto' = [auto EXCEPT !.AutoTestChannelEnabled = b]
          /\ last' = [op |-> "setting", enabled |-> b]
    /\ UNCHANGED <<testAllChannelsRunning, sweeps, options, probe>>

\* The handler TestAllChannels (lines 810-820)
TestAllChannels ==
    /\ Len(sweeps) < MaxSweeps
    /\ \E load \in {LoadError} \cup {Loaded(f) : f \in SchedulerFleets} :
          testAllChannels(TRUE, load)
    /\ UNCHANGED <<options, probe, auto>>

\* The sweeps of this specification probe under these environments
ScheduledSweepProbe == SweepProbeIn(SchedulerEnvs)

InitScheduler ==
    /\ testAllChannelsRunning = FALSE
    /\ sweeps = <<>>
    /\ options = [ChannelDisableThreshold |-> 50000, AutomaticDisableChannelEnabled |-> TRUE]
    /\ last = [op |-> "none"]
    /\ probe = NoProbe
    /\ auto \in {Scheduler(master, enabled) : master \in BOOLEAN, enabled \in BOOLEAN}

NextScheduler ==
    \/ \E c \in Callers : AutomaticallyTestChannels(c)
    \/ \E c \in Callers : OnceDo(c)
    \/ \E c \in Callers : SchedulerPoll(c)
    \/ \E c \in Callers : SchedulerWakeMinute(c)
    \/ \E c \in Callers : SchedulerRun(c)
    \/ \E c \in Callers : SchedulerRecheck(c)
    \/ UpdateMonitorSetting
    \/ TestAllChannels
    \/ ScheduledSweepProbe
    \/ SweepWake
    \/ SweepExit

SchedulerSpec == InitScheduler /\ [][NextScheduler]_vars

-----------------------------------------------------------------------------
(* An on-demand probe beside the sweeps *)

\* The on-demand requests that arrive while sweeps run: a channel of the
\* registry in either status, of a provider type that can or cannot be
\* probed, answered well, slowly or badly; and a request with a bad id
RaceInputs ==
    {ProbeInput("7", "cache", Channel(7, t, st, TRUE, "gpt-4"), "", "", env) :
        t \in {"OpenAI", "Midjourney"},
        st \in {ChannelStatusEnabled, ChannelStatusAutoDisabled},
        env \in {BaseEnv, [BaseEnv EXCEPT !.ms = 6000],
                 [BadResponseEnv EXCEPT !.shouldDisable = TRUE]}}
    \cup {ProbeInput("abc", "cache", Channel(7, "OpenAI", ChannelStatusEnabled, TRUE, "gpt-4"),
                     "", "", BaseEnv)}

\* The request waits for the handler while TestAllChannels starts sweeps and
\* the sweep goroutines run
InitRace ==
    /\ testAllChannelsRunning = FALSE
    /\ sweeps = <<>>
    /\ options = [ChannelDisableThreshold |-> 50000, AutomaticDisableChannelEnabled |-> TRUE]
    /\ last = [op |-> "none"]
    /\ probe \in {ProbePending(in) : in \in RaceInputs}
    /\ auto = NoScheduler

NextRace ==
    \/ TestChannel
    \/ TestAllChannels
    \/ ScheduledSweepProbe
    \/ SweepWake
    \/ SweepExit

RaceSpec == InitRace /\ [][NextRace]_vars

-----------------------------------------------------------------------------
(* Properties *)

\* The provider types excluded from testing
UnsupportedForTesting ==
    {"Midjourney", "MidjourneyPlus", "SunoAPI", "Kling", "Jimeng", "DoubaoVideo", "Vidu"}

\* The last operation was an iteration of a sweep
Probed == last.op = "probe"

\* The on-demand probe ran testChannel and answered
Answered == probe.pc = "done"

\* C1: at most one sweep is in flight; a call of testAllChannels made while the
\* flag is set returns the "test already running" error, starts no sweep and
\* leaves the flag set.
C1_SingleFlight ==
    /\ Len(sweeps) <= 1
    /\ (last.op = "testAllChannels" /\ last.runningBefore) =>
          /\ last.err = Err("test already running")
          /\ ~last.started
          /\ testAllChannelsRunning

\* C1 witness: a call was rejected while a sweep was in flight
C1_Witness ==
    /\ last.op = "testAllChannels"
    /\ last.runningBefore
    /\ Len(sweeps) = 1
    /\ sweeps[1].idx <= Len(sweeps[1].channels)

\* C2 as claimed: the flag is never set while no sweep is in flight, so every
\* call that set the flag is followed by its release.
C2_GuardReleased ==
    testAllChannelsRunning => Len(sweeps) > 0

\* C3 as claimed: every probe that does not end Skipped writes exactly one
\* audit record.
C3_OneAuditPerProbe ==
    (Answered /\ ~IsSkip(probe.result.localErr)) => Len(probe.result.audits) = 1

\* C4: a probe of a channel whose provider type is unsupported for testing
\* never reaches DoRequest (it calls no collaborator at all) and ends Failed
\* with a message that names the provider type, whatever the model argument
\* and the stored test model.
C4_UnsupportedRejected ==
    (Answered /\ probe.in.channel.Type \in UnsupportedForTesting) =>
        /\ probe.result.trace = <<>>
        /\ probe.result.localErr =
              Errorf("channel test is not supported", GetChannelTypeName(probe.in.channel.Type))
        /\ ~IsSkip(probe.result.localErr)
        /\ probe.response.success = FALSE
        /\ probe.response.skipped = FALSE
        /\ probe.response.message.arg = probe.in.channel.Type

\* C4 witness: an unsupported channel with a stored test model and an explicit
\* model argument was probed
C4_Witness ==
    /\ Answered
    /\ probe.in.channel.Type = "Vidu"
    /\ probe.in.channel.TestModel = "gpt-4"
    /\ probe.in.model = "codex-mini"

\* C5 as claimed: a probe of a channel with no stored test model, given no
\* explicit model argument, always ends Skipped.
C5_SkippedWithoutModel ==
    (Answered /\ probe.in.channel.TestModel \in {NoString, ""} /\ probe.in.model \in {"", " "}) =>
        IsSkip(probe.result.localErr)

\* C5 amended: a probe of a channel of a provider type that is supported for
\* testing, with no stored test model and no explicit model argument, always
\* ends Skipped: it writes no audit record, calls no collaborator and is
\* answered as skipped, not as failed.
C5_SkippedWithoutModelSupported ==
    (/\ Answered
     /\ probe.in.channel.Type \notin UnsupportedForTesting
     /\ probe.in.channel.TestModel \in {NoString, ""}
     /\ probe.in.model \in {"", " "}) =>
        /\ IsSkip(probe.result.localErr)
        /\ probe.result.audits = <<>>
        /\ probe.result.trace = <<>>
        /\ probe.response = Response(TRUE, NilErr, 0, TRUE)

\* C5 witness: a supported channel whose stored test model is the empty
\* string was probed with a blank model argument
C5_Witness ==
    /\ Answered
    /\ probe.in.channel.Type = "OpenAI"
    /\ probe.in.channel.TestModel = ""
    /\ probe.in.model = " "
    /\ probe.response.skipped

\* C6: every channel of the snapshot is probed exactly once, in snapshot
\* order, whatever the earlier probes returned, and a sweep leaves its loop
\* only after the probe of the last channel.
C6_SweepProbesAll ==
    /\ \A i \in 1..Len(sweeps) :
          /\ sweeps[i].idx \in 1..(Len(sweeps[i].channels) + 1)
          /\ sweeps[i].probed = SubSeq(Ids(sweeps[i].channels), 1, sweeps[i].idx - 1)
    /\ last.op = "exit" => last.probed = last.snapshot

\* C6 witness: a sweep ended whose first probe had failed and whose snapshot
\* held a further channel
C6_Witness ==
    /\ last.op = "exit"
    /\ Len(last.snapshot) >= 2
    /\ last.outcomes[1] = "Failed"
    /\ last.probed = last.snapshot

\* C7: an iteration of a sweep issues a disable call if and only if the
\* channel was enabled in the snapshot, shouldBan is true for its probe and the
\* channel permits auto-ban.
C7_DisableIff ==
    Probed =>
        /\ Len(last.it.disable) <= 1
        /\ Len(last.it.disable) = 1 <=>
              /\ last.channel.Status = ChannelStatusEnabled
              /\ last.it.shouldBanChannel
              /\ last.channel.AutoBan
        /\ \A k \in 1..Len(last.it.disable) : last.it.disable[k].ChannelId = last.channel.Id

\* C7 witness: a banned probe of an enabled channel with auto-ban off, and so
\* no disable call
C7_Witness ==
    /\ Probed
    /\ last.channel.Status = ChannelStatusEnabled
    /\ last.it.shouldBanChannel
    /\ ~last.channel.AutoBan
    /\ last.it.disable = <<>>

\* C8: an iteration of a sweep that is not skipped issues an enable call
\* exactly when the channel was not enabled in the snapshot and
\* ShouldEnableChannel approves; a probe whose shouldBan is true, and a skipped
\* probe, issue none.
C8_EnableIff ==
    Probed =>
        /\ Len(last.it.enable) <= 1
        /\ ~last.it.skipped =>
              (Len(last.it.enable) = 1 <=>
                  /\ last.channel.Status # ChannelStatusEnabled
                  /\ ShouldEnableChannel(last.channel.Status, last.it.shouldBanChannel, last.env))
        /\ last.it.shouldBanChannel => last.it.enable = <<>>
        /\ last.it.skipped => last.it.enable = <<>>

\* C8 witness: an enabled channel whose probe the policy would approve, and
\* so no enable call
C8_Witness ==
    /\ Probed
    /\ ~last.it.skipped
    /\ last.channel.Status = ChannelStatusEnabled
    /\ ShouldEnableChannel(last.channel.Status, last.it.shouldBanChannel, last.env)
    /\ last.it.enable = <<>>

\* C9 as claimed: with the threshold configured as 0 the latency check of a
\* sweep never sets shouldBan, whatever the elapsed time of the probe.
C9_ZeroThresholdNeverBans ==
    (Probed /\ options.ChannelDisableThreshold = 0) => ~last.it.latencyBanned

\* C10 as claimed: an on-demand probe whose provider answers with a
\* non-success status is answered success=false with the classified reason and
\* the elapsed time of the probe, and writes one audit record with quota 0.
C10_BadResponseAnswer ==
    (Answered /\ probe.result.newAPIError.code = "bad_response") =>
        /\ probe.response.success = FALSE
        /\ probe.response.message = Err(probe.in.env.reason)
        /\ probe.response.time = probe.in.env.ms
        /\ Len(probe.result.audits) = 1
        /\ probe.result.audits[1].Quota = 0

\* The probes of a sequence of outcomes that did not end Skipped
NonSkipped(outcomes) == Cardinality({k \in 1..Len(outcomes) : outcomes[k] # "Skipped"})

\* C18: within a sweep the probes run one after another with the inter-probe
\* sleep between them: whenever the loop of a sweep is about to probe a channel
\* or to leave, every earlier probe that was not skipped has returned and the
\* sleep that follows it has ended; while the goroutine sleeps, exactly the
\* sleep of its latest probe is outstanding.
C18_SequentialWithDelay ==
    /\ \A i \in 1..Len(sweeps) :
          /\ Len(sweeps[i].outcomes) = sweeps[i].idx - 1
          /\ sweeps[i].pc = "loop" => sweeps[i].sleeps = NonSkipped(sweeps[i].outcomes)
          /\ sweeps[i].pc = "sleep" =>
                /\ sweeps[i].sleeps + 1 = NonSkipped(sweeps[i].outcomes)
                /\ sweeps[i].outcomes[Len(sweeps[i].outcomes)] # "Skipped"
    /\ last.op = "exit" => last.sleeps = NonSkipped(last.outcomes)

\* C18 witness: the loop of a sweep stands before its second channel after a
\* failed probe of the first and the sleep that followed it
C18_Witness ==
    /\ Len(sweeps) = 1
    /\ sweeps[1].pc = "loop"
    /\ sweeps[1].idx = 2
    /\ Len(sweeps[1].channels) >= 2
    /\ sweeps[1].outcomes = <<"Failed">>
    /\ sweeps[1].sleeps = 1

\* C19: an iteration of a sweep whose probe did not end Skipped records the
\* elapsed time of the probe against the channel exactly once, whether the
\* probe succeeded or failed and whether or not a disable or an enable call was
\* issued; an iteration whose probe ended Skipped records no response time and
\* issues no enable and no disable call.
C19_ResponseTimeRecorded ==
    Probed =>
        IF last.it.result.localErr = errSkipChannelTest
        THEN /\ last.it.updateResponseTime = <<>>
             /\ last.it.enable = <<>>
             /\ last.it.disable = <<>>
        ELSE last.it.updateResponseTime = <<last.env.ms>>

\* C19 witness: a failed probe whose channel was disabled, with its response
\* time recorded
C19_Witness ==
    /\ Probed
    /\ last.it.result.localErr # NilErr
    /\ last.it.result.localErr # errSkipChannelTest
    /\ Len(last.it.disable) = 1
    /\ last.it.updateResponseTime = <<last.env.ms>>

\* The error the latency check attaches
ResponseTimeExceeded ==
    NewError(Err("response time exceeds threshold"), "channel_response_time_exceeded")

\* C20: in a sweep the error policy is asked first and short-circuits the
\* latency check: when it bans a failed probe the elapsed time is not compared
\* with the threshold and a disable call carries the classified upstream
\* error; a disable call carries the response-time-exceeded error only when
\* the error policy did not ban.
C20_ErrorBanFirst ==
    (Probed /\ ~last.it.skipped) =>
        LET errorBan == /\ last.it.result.newAPIError # NilAPIError
                        /\ ShouldDisableChannel(last.channel.Type, last.it.result.newAPIError, last.env)
        IN  /\ errorBan =>
                /\ last.it.shouldBanChannel
                /\ ~last.it.latencyBanned
                /\ \A k \in 1..Len(last.it.disable) :
                      last.it.disable[k].err = last.it.result.newAPIError
            /\ \A k \in 1..Len(last.it.disable) :
                  last.it.disable[k].err = ResponseTimeExceeded =>
                      ~errorBan /\ last.it.latencyBanned

\* C20 witness: the error policy banned a failed probe that also took longer
\* than the threshold, with the latency check switched on, and the channel was
\* disabled
C20_Witness ==
    /\ Probed
    /\ last.automaticDisable
    /\ last.it.result.newAPIError # NilAPIError
    /\ last.env.shouldDisable
    /\ last.env.ms > last.disableThreshold
    /\ Len(last.it.disable) = 1

\* The callers of AutomaticallyTestChannels that run the scheduler loop
Loops == {c \in DOMAIN auto.pc : auto.pc[c] \in LoopPcs}

\* C11 as claimed: the scheduler never invokes testAllChannels while the
\* auto-test setting is off (the scheduler is the one caller that passes
\* notify = false).
C11_NoSweepWhileOff ==
    (last.op = "testAllChannels" /\ ~last.notify) => auto.AutoTestChannelEnabled

\* C12: however many goroutines call AutomaticallyTestChannels, at most one
\* runs the scheduler loop, and none does on a node that is not the master.
C12_OneLoop ==
    /\ Cardinality(Loops) <= 1
    /\ ~auto.IsMasterNode => Loops = {}

\* C12 witness: one caller runs the loop while another stands inside
\* autoTestChannelsOnce.Do
C12_Witness ==
    /\ Cardinality(Loops) = 1
    /\ \E c \in DOMAIN auto.pc : auto.pc[c] = "lock"

\* C17: a sweep sends exactly one fleet-completion notification when notify
\* was asked for and none otherwise, and sends it only when it leaves its loop,
\* after the probe of the last channel of the snapshot has returned; a call of
\* testAllChannels by the scheduler passes notify = false and the sweep it
\* starts carries it.
C17_NotifyOnce ==
    /\ [](last.op = "exit" =>
             /\ last.notifications = (IF last.notify THEN 1 ELSE 0)
             /\ last.probed = last.snapshot
             /\ Len(last.outcomes) = Len(last.snapshot))
    /\ [][(\E c \in Callers : SchedulerRun(c)) =>
             /\ ~last'.notify
             /\ last'.started => ~sweeps'[Len(sweeps')].notify]_vars

\* C17 witness: a sweep of two channels that was asked to notify has ended
C17_Witness ==
    /\ last.op = "exit"
    /\ last.notify
    /\ Len(last.snapshot) = 2
    /\ last.notifications = 1

\* The on-demand probe ended Succeeded
Succeeded == Answered /\ probe.result.localErr = NilErr

\* The model name of the on-demand probe: the model argument, else the stored
\* test model, without surrounding white space
TestModelOf(in) ==
    IF TrimSpace(in.model) # "" THEN TrimSpace(in.model) ELSE TrimSpace(in.channel.TestModel)

Abs(x) == IF x >= 0 THEN x ELSE -x

\* The integer nearest to n/d (d > 0), a tie going away from zero
NearestHalfAway(n, d) ==
    CHOOSE r \in {n \div d, (n \div d) + 1} :
        /\ (n >= 0 => r >= 0) /\ (n <= 0 => r <= 0)
        /\ 2 * Abs(n) - d < 2 * d * Abs(r)
        /\ 2 * d * Abs(r) <= 2 * Abs(n) + d

\* C13: with ratio pricing the quota of a successful probe is
\* round((promptTokens + round(completionTokens * completionRatio)) * modelRatio),
\* each of the two roundings to the nearest integer with ties away from zero,
\* and a result <= 0 is replaced by 1 when modelRatio is not 0, so that the
\* quota is then at least 1.
C13_RatioQuota ==
    (Succeeded /\ ~probe.in.env.priceData.UsePrice) =>
        LET usage == probe.in.env.usage
            price == probe.in.env.priceData
            billedCompletion == NearestHalfAway(usage.CompletionTokens * price.CompletionRatio, 100)
            raw == NearestHalfAway((usage.PromptTokens + billedCompletion) * price.ModelRatio, 100)
        IN  /\ Len(probe.result.audits) = 1
            /\ probe.result.audits[1].Quota = (IF price.ModelRatio # 0 /\ raw <= 0 THEN 1 ELSE raw)
            /\ price.ModelRatio # 0 => probe.result.audits[1].Quota >= 1

\* C13 witness: prompt 3, completion 1, completion ratio 1.50, model ratio
\* 0.50: 1.5 rounds to 2 and 2.5 rounds to 3
C13_Witness ==
    /\ Succeeded
    /\ probe.in.env.usage = Usage(3, 1)
    /\ probe.in.env.priceData = PriceData(FALSE, 50, 150, 0)
    /\ probe.result.audits[1].Quota = 3

\* C14 as claimed: with flat pricing the quota of a successful probe is
\* modelPrice * quotaPerUnit rounded to the nearest integer, ties away from
\* zero, whatever the token counts.
C14_FlatQuota ==
    (Succeeded /\ probe.in.env.priceData.UsePrice) =>
        /\ Len(probe.result.audits) = 1
        /\ probe.result.audits[1].Quota =
              NearestHalfAway(probe.in.env.priceData.ModelPrice * QuotaPerUnit, 1000000)

\* The rules of the resolver for a probe without endpoint hint
EmbeddingRule(channel, modelName) ==
    \/ modelName \in {"text-embedding-3-small", "m3e-base", "bge-large", "embed-v1",
                      "seedream-embed", "codex-seedream-embed"}
    \/ channel.Type = "MokaAI"

ImageRule(channel, modelName) ==
    /\ channel.Type = "VolcEngine"
    /\ modelName \in {"seedream-3", "seedream-embed", "codex-seedream-embed"}

CodexRule(channel, modelName) ==
    modelName \in {"codex-mini", "GPT-Codex", "codex-seedream-embed"}

\* An on-demand probe without endpoint hint whose collaborators all answer
\* well, and so one that reaches the conversion its wire path stands for
PlainProbe ==
    /\ Answered
    /\ probe.in.endpoint_type = ""
    /\ probe.in.env = BaseEnv
    /\ probe.in.channel.Type \notin UnsupportedForTesting
    /\ ~IsSkip(probe.result.localErr)

\* The conversion entry point the probe called
Converts(entryPoint) ==
    \E k \in 1..Len(probe.result.trace) : probe.result.trace[k] = entryPoint

\* C15 as claimed: without endpoint hint the embedding rule has the highest
\* priority, then the image rule, then the codex rule, then the chat default.
C15_EmbeddingFirst ==
    PlainProbe =>
        LET channel == probe.in.channel
            modelName == TestModelOf(probe.in)
        IN  Converts(IF EmbeddingRule(channel, modelName) THEN "ConvertEmbeddingRequest"
                     ELSE IF ImageRule(channel, modelName) THEN "ConvertImageRequest"
                     ELSE IF CodexRule(channel, modelName) THEN "ConvertOpenAIResponsesRequest"
                     ELSE "ConvertOpenAIRequest")

\* C15 amended: without endpoint hint the resolver applies the embedding rule,
\* then the image rule, then the codex rule, each later match replacing the
\* path of an earlier one: the codex rule decides over the image rule, the
\* image rule over the embedding rule, and the chat default stays when no rule
\* matches; the probe is synthesized and converted as the variant of that path.
C15_LaterRuleWins ==
    PlainProbe =>
        LET channel == probe.in.channel
            modelName == TestModelOf(probe.in)
            entryPoint == IF CodexRule(channel, modelName) THEN "ConvertOpenAIResponsesRequest"
                          ELSE IF ImageRule(channel, modelName) THEN "ConvertImageRequest"
                          ELSE IF EmbeddingRule(channel, modelName) THEN "ConvertEmbeddingRequest"
                          ELSE "ConvertOpenAIRequest"
        IN  /\ Succeeded
            /\ Converts(entryPoint)
            /\ probe.result.request.variant = variantOfMode(
                  CASE entryPoint = "ConvertOpenAIResponsesRequest" -> "RelayModeResponses"
                    [] entryPoint = "ConvertImageRequest" -> "RelayModeImagesGenerations"
                    [] entryPoint = "ConvertEmbeddingRequest" -> "RelayModeEmbeddings"
                    [] OTHER -> "RelayModeChatCompletions")

\* C15 witness: a model name that satisfies the three rules at once, on an
\* image-capable channel, probed through the responses conversion
C15_Witness ==
    /\ PlainProbe
    /\ probe.in.channel.Type = "VolcEngine"
    /\ TestModelOf(probe.in) = "codex-seedream-embed"
    /\ Converts("ConvertOpenAIResponsesRequest")

\* The store answered a body that is not blank, and the probe handed a request
\* to the conversion
OverrideConverted ==
    /\ Answered
    /\ probe.in.env.override # NoString
    /\ TrimSpace(probe.in.env.override) # ""
    /\ probe.result.request # NilRequest

\* C16 as claimed: the request handed to the conversion is the decoded
\* override, of the variant the resolver selected, and its model field is the
\* model name of the probe.
C16_OverrideAtConversion ==
    OverrideConverted =>
        /\ probe.result.request.source = "override"
        /\ probe.result.request.variant =
              buildTestRequest(TestModelOf(probe.in), probe.in.endpoint_type, probe.in.channel).variant
        /\ probe.result.request.Model = TestModelOf(probe.in)

\* C16 amended: the request handed to the conversion is the decoded override,
\* of the variant the resolver selected, never the synthesized body; its model
\* field is never the name the stored body gave: it is the upstream name that
\* model mapping gives for the model of the probe, which is the model name of
\* the probe itself when the mapping leaves it alone.
C16_OverrideMapped ==
    OverrideConverted =>
        /\ probe.result.request.source = "override"
        /\ probe.result.request.variant =
              buildTestRequest(TestModelOf(probe.in), probe.in.endpoint_type, probe.in.channel).variant
        /\ probe.result.request.Model # "other-model"
        /\ probe.result.request.Model =
              (IF probe.in.env.upstream = "" THEN TestModelOf(probe.in) ELSE probe.in.env.upstream)

\* C16 witness: a stored body that names another model, for a probe of an
\* embedding model whose name the mapping rewrites
C16_Witness ==
    /\ OverrideConverted
    /\ probe.in.env.upstream = "upstream-model"
    /\ probe.in.endpoint_type = "embeddings"
    /\ probe.result.request.variant = "EmbeddingRequest"
    /\ probe.result.request.Model = "upstream-model"

\* The on-demand probe called this collaborator
Called(step) ==
    \E k \in 1..Len(probe.result.trace) : probe.result.trace[k] = step

\* C21 as claimed: when model mapping rewrites the model of the probe, every
\* audit record written after the mapping step, on success as well as on
\* failure, carries the rewritten name.
C21_AuditCarriesUpstream ==
    (Answered /\ probe.in.env.upstream # "" /\ Called("GetAdaptor")) =>
        \A k \in 1..Len(probe.result.audits) :
            probe.result.audits[k].ModelName = probe.in.env.upstream

\* C29: no run of testChannel writes more than one audit record, whichever
\* branch it returns from, and a run that ends Skipped writes none.
C29_AtMostOneAudit ==
    Answered =>
        /\ Len(probe.result.audits) <= 1
        /\ IsSkip(probe.result.localErr) => probe.result.audits = <<>>

\* C29 witness: the outbound call failed, the branch recorded the failure and
\* the deferred function added nothing
C29_Witness ==
    /\ Answered
    /\ probe.result.localErr = Err("do request failed")
    /\ Len(probe.result.audits) = 1
    /\ probe.result.audits[1].Error = "do request failed"

\* The place of a collaborator in the order of the steps of a probe
Rank(step) ==
    CASE step = "GetUserCache" -> 1
      [] step = "SetupContextForSelectedChannel" -> 2
      [] step = "GetModelTestRequestBodyByName" -> 3
      [] step = "GenRelayInfo" -> 4
      [] step = "ModelMappedHelper" -> 5
      [] step = "GetAdaptor" -> 6
      [] step = "ModelPriceHelper" -> 7
      [] step \in {"ConvertEmbeddingRequest", "ConvertImageRequest", "ConvertRerankRequest",
                   "ConvertOpenAIResponsesRequest", "ConvertOpenAIRequest"} -> 8
      [] step = "json.Marshal" -> 9
      [] step = "ApplyParamOverride" -> 10
      [] step = "DoRequest" -> 11
      [] step \in {"RelayErrorHandler", "DoResponse"} -> 12
      [] step = "ReadAll" -> 13
      [] step = "RecordConsumeLog" -> 14

\* The step a collaborator belongs to, as the environment names the steps
StepOf(step) ==
    CASE Rank(step) = 8 -> "Convert"
      [] step = "json.Marshal" -> "Marshal"
      [] OTHER -> step

\* The cause a failing step gives
CauseOf(step) ==
    CASE step = "GetUserCache" -> "get user cache failed"
      [] step = "SetupContextForSelectedChannel" -> "setup context failed"
      [] step = "GetModelTestRequestBodyByName" -> "get test request body failed"
      [] step = "GenRelayInfo" -> "gen relay info failed"
      [] step = "ModelMappedHelper" -> "model mapped failed"
      [] step = "GetAdaptor" -> "invalid api type, adaptor is nil"
      [] step = "ModelPriceHelper" -> "model price failed"
      [] step = "Convert" -> "convert request failed"
      [] step = "Marshal" -> "json marshal failed"
      [] step = "ApplyParamOverride" -> "param override invalid"
      [] step = "DoRequest" -> "do request failed"
      [] step = "DoResponse" -> "do response failed"
      [] step = "ReadAll" -> "read response body failed"
      [] OTHER -> ""

\* C22: the steps of a probe run in one order, each at most once: model-name
\* mapping, then the pricing lookup, then the conversion, then the outbound
\* call; the first step that fails is the last step of the probe, the probe
\* ends Failed with the cause of that step, and DoRequest is called at most
\* once.
C22_StepOrder ==
    Answered =>
        LET trace == probe.result.trace
        IN  /\ \A a, b \in 1..Len(trace) : a < b => Rank(trace[a]) < Rank(trace[b])
            /\ Cardinality({k \in 1..Len(trace) : trace[k] = "DoRequest"}) <= 1
            /\ \A k \in 1..Len(trace) :
                  StepOf(trace[k]) \in probe.in.env.fails =>
                      /\ k = Len(trace)
                      /\ probe.result.localErr.msg = CauseOf(StepOf(trace[k]))
                      /\ probe.response.success = FALSE
                      /\ probe.response.skipped = FALSE

\* C22 witness: the pricing lookup, the conversion and the outbound call would
\* all fail; the probe ends at the pricing lookup
C22_Witness ==
    /\ Answered
    /\ probe.in.env.fails = {"ModelPriceHelper", "Convert", "DoRequest"}
    /\ Called("ModelMappedHelper")
    /\ probe.result.trace[Len(probe.result.trace)] = "ModelPriceHelper"
    /\ probe.result.localErr = Err("model price failed")

\* The request type each relay mode requires
RequiredVariant(relayMode) ==
    CASE relayMode = "RelayModeEmbeddings" -> "EmbeddingRequest"
      [] relayMode = "RelayModeImagesGenerations" -> "ImageRequest"
      [] relayMode = "RelayModeRerank" -> "RerankRequest"
      [] relayMode = "RelayModeResponses" -> "OpenAIResponsesRequest"
      [] OTHER -> "GeneralOpenAIRequest"

\* The on-demand probe passed the pricing lookup with a request whose variant
\* is not the one the relay mode of the probe requires
MismatchCase ==
    /\ Answered
    /\ Called("ModelPriceHelper")
    /\ "ModelPriceHelper" \notin probe.in.env.fails
    /\ probe.in.env.relayMode # ""
    /\ RequiredVariant(probe.in.env.relayMode) #
          buildTestRequest(TestModelOf(probe.in), probe.in.endpoint_type, probe.in.channel).variant

\* C23: a probe whose request is not of the variant its relay mode requires
\* ends Failed with the 'invalid ... request type' error of that mode under the
\* convert-request-failed code; no convert entry point is called, no request is
\* handed to the adaptor and no outbound call is made.
C23_VariantMismatch ==
    MismatchCase =>
        /\ probe.result.localErr.msg =
              (CASE probe.in.env.relayMode = "RelayModeEmbeddings" -> "invalid embedding request type"
                 [] probe.in.env.relayMode = "RelayModeImagesGenerations" -> "invalid image request type"
                 [] probe.in.env.relayMode = "RelayModeRerank" -> "invalid rerank request type"
                 [] probe.in.env.relayMode = "RelayModeResponses" -> "invalid response request type"
                 [] OTHER -> "invalid general request type")
        /\ probe.result.newAPIError.code = "convert_request_failed"
        /\ \A k \in 1..Len(probe.result.trace) : Rank(probe.result.trace[k]) < 8
        /\ probe.result.request = NilRequest
        /\ probe.response.success = FALSE
        /\ probe.response.skipped = FALSE

\* C23 witness: a chat request under the rerank mode
C23_Witness ==
    /\ MismatchCase
    /\ probe.in.env.relayMode = "RelayModeRerank"
    /\ TestModelOf(probe.in) = "gpt-4"
    /\ probe.result.localErr = Err("invalid rerank request type")

\* The provider answered the outbound call with a status that is not 200
BadStatusCase ==
    /\ Answered
    /\ Called("DoRequest")
    /\ "DoRequest" \notin probe.in.env.fails
    /\ probe.in.env.statusCode \notin {0, 200}

\* C24: when the provider answers with a non-success status the probe ends
\* Failed with the error of the response-error classifier under the
\* bad-response code; DoResponse is not called and the one audit record
\* carries quota 0 and no tokens.
C24_BadStatus ==
    BadStatusCase =>
        /\ probe.result.localErr = Err(probe.in.env.reason)
        /\ probe.result.newAPIError = NewError(Err(probe.in.env.reason), "bad_response")
        /\ Called("RelayErrorHandler")
        /\ ~Called("DoResponse")
        /\ ~Called("RecordConsumeLog")
        /\ Len(probe.result.audits) = 1
        /\ probe.result.audits[1].Quota = 0
        /\ probe.result.audits[1].PromptTokens = 0
        /\ probe.result.audits[1].CompletionTokens = 0
        /\ probe.response.success = FALSE

\* C24 witness: the provider answered 404
C24_Witness ==
    /\ BadStatusCase
    /\ probe.in.env.statusCode = 404
    /\ probe.result.audits[1].Error = "upstream error: not found"

\* The store answered a body that is no JSON
UndecodableCase ==
    /\ Answered
    /\ Called("GetModelTestRequestBodyByName")
    /\ "GetModelTestRequestBodyByName" \notin probe.in.env.fails
    /\ probe.in.env.override = "{not json"

\* C25: a stored override body that cannot be decoded ends the probe Failed
\* with the decode error; the probe stops there: no conversion, no outbound
\* call, and the synthesized body is not used in its place.
C25_UndecodableOverride ==
    UndecodableCase =>
        /\ probe.result.localErr = Err("json: cannot unmarshal")
        /\ probe.result.newAPIError.code = "invalid_request"
        /\ probe.result.trace[Len(probe.result.trace)] = "GetModelTestRequestBodyByName"
        /\ probe.result.request = NilRequest
        /\ ~Called("DoRequest")
        /\ Len(probe.result.audits) = 1
        /\ probe.response.success = FALSE
        /\ probe.response.skipped = FALSE

\* C25 witness: an undecodable body for a probe with the embeddings hint
C25_Witness ==
    /\ UndecodableCase
    /\ probe.in.endpoint_type = "embeddings"
    /\ probe.result.localErr = Err("json: cannot unmarshal")

\* The on-demand probe handed a synthesized chat request to the conversion
SynthesizedChat ==
    /\ Answered
    /\ probe.result.request # NilRequest
    /\ probe.result.request.source = "synthesized"
    /\ probe.result.request.variant = "GeneralOpenAIRequest"

\* The model names the heuristic of the token limit tells apart
StartsWithO == {"o1-mini"}
NamesThinking == {"deepseek-thinking", "claude-3-thinking", "gemini-thinking"}
NamesClaude == {"claude-3-thinking"}
NamesGemini == {"gemini-pro", "gemini-thinking"}

\* C26 as claimed: a synthesized chat probe always carries a token limit: a
\* completion-token cap of 16 for a name starting with 'o', else a max-token
\* cap of 50 for 'thinking' without 'claude', else 3000 for 'gemini', else 16,
\* also for a name with both 'thinking' and 'claude'.
C26_TokenLimit ==
    SynthesizedChat =>
        LET m == TestModelOf(probe.in)
            r == probe.result.request
        IN  IF m \in StartsWithO THEN r.MaxCompletionTokens = 16 /\ r.MaxTokens = 0
            ELSE IF m \in NamesThinking \ NamesClaude THEN r.MaxTokens = 50 /\ r.MaxCompletionTokens = 0
            ELSE IF m \in NamesGemini \ NamesThinking THEN r.MaxTokens = 3000 /\ r.MaxCompletionTokens = 0
            ELSE r.MaxTokens = 16 /\ r.MaxCompletionTokens = 0

\* C26 amended: the token limit of a synthesized chat probe follows the model
\* name: a completion-token cap of 16 for a name starting with 'o'; else, for
\* a name containing 'thinking', a max-token cap of 50 unless the name also
\* contains 'claude', in which case the probe carries no token limit at all;
\* else a max-token cap of 3000 for a name containing 'gemini'; else 16.
C26_TokenLimitUnlessClaudeThinking ==
    SynthesizedChat =>
        LET m == TestModelOf(probe.in)
            r == probe.result.request
        IN  IF m \in StartsWithO THEN r.MaxCompletionTokens = 16 /\ r.MaxTokens = 0
            ELSE IF m \in NamesThinking \ NamesClaude THEN r.MaxTokens = 50 /\ r.MaxCompletionTokens = 0
            ELSE IF m \in NamesThinking THEN r.MaxTokens = 0 /\ r.MaxCompletionTokens = 0
            ELSE IF m \in NamesGemini THEN r.MaxTokens = 3000 /\ r.MaxCompletionTokens = 0
            ELSE r.MaxTokens = 16 /\ r.MaxCompletionTokens = 0

\* C26 witness: a chat probe of a model whose name contains 'thinking' and
\* 'gemini'
C26_Witness ==
    /\ SynthesizedChat
    /\ TestModelOf(probe.in) = "gemini-thinking"
    /\ probe.result.request.MaxTokens = 50

\* The path the static endpoint table gives for an endpoint hint, the chat
\* path for a hint the table does not know
HintPath(hint) ==
    CASE hint = "openai"           -> "/v1/chat/completions"
      [] hint = "openai-response"  -> "/v1/responses"
      [] hint = "anthropic"        -> "/v1/messages"
      [] hint = "gemini"           -> "/v1beta/models/{model}:generateContent"
      [] hint = "jina-rerank"      -> "/v1/rerank"
      [] hint = "image-generation" -> "/v1/images/generations"
      [] hint = "embeddings"       -> "/v1/embeddings"
      [] OTHER -> "/v1/chat/completions"

\* The variant of the request synthesized for an endpoint hint
HintVariant(hint) ==
    CASE hint = "openai-response"  -> "OpenAIResponsesRequest"
      [] hint = "jina-rerank"      -> "RerankRequest"
      [] hint = "image-generation" -> "ImageRequest"
      [] hint = "embeddings"       -> "EmbeddingRequest"
      [] OTHER -> "GeneralOpenAIRequest"

\* C27: with an endpoint hint the probe runs under the path the static table
\* gives for the hint, under the chat path for a hint the table does not know,
\* whatever the model name and the provider type of the channel; the request
\* it synthesizes is of the variant of that path.
C27_HintDecides ==
    (Answered /\ probe.in.endpoint_type # "" /\ probe.result.context) =>
        /\ probe.result.path = HintPath(probe.in.endpoint_type)
        /\ (probe.result.request # NilRequest /\ probe.result.request.source = "synthesized") =>
              probe.result.request.variant = HintVariant(probe.in.endpoint_type)
        /\ probe.in.env = BaseEnv => Succeeded

\* C27 witness: the embeddings hint for a codex model
C27_Witness ==
    /\ Succeeded
    /\ probe.in.endpoint_type = "embeddings"
    /\ TestModelOf(probe.in) = "codex-mini"
    /\ probe.result.path = "/v1/embeddings"
    /\ probe.result.request.variant = "EmbeddingRequest"

\* C28 as claimed: an iteration of a sweep issues an enable call only when the
\* probe of the channel succeeded; a channel that is not enabled and whose
\* probe failed, with a local error alone or with a classified error the
\* policy does not ban, is not re-enabled.
C28_EnableOnlyAfterSuccess ==
    (Probed /\ last.it.enable # <<>>) =>
        /\ last.it.result.localErr = NilErr
        /\ last.it.result.newAPIError = NilAPIError

\* The handler of the on-demand probe has returned
Handled == probe.pc \in {"done", "rejected"}

\* C30: the on-demand probe is accepted whatever the single-flight flag says,
\* also while a sweep is in flight; the step of the handler leaves the flag,
\* the sweeps and the options as they are; and the handler issues no enable
\* and no disable call, whatever the outcome of the probe, so the status of
\* the channel after it is the status before it.
C30_ProbeBesideSweep ==
    /\ [](probe.pc = "pending" => ENABLED TestChannel)
    /\ [](Handled => (probe.enable = <<>> /\ probe.disable = <<>>))
    /\ [][TestChannel => /\ testAllChannelsRunning' = testAllChannelsRunning
                         /\ sweeps' = sweeps
                         /\ options' = options]_vars

\* C30 witness: a probe of an enabled channel answered with a classified
\* error while the flag is set and a sweep is between two of its channels
C30_Witness ==
    /\ Answered
    /\ probe.result.newAPIError # NilAPIError
    /\ probe.in.channel.Status = ChannelStatusEnabled
    /\ testAllChannelsRunning
    /\ \E i \in 1..Len(sweeps) : sweeps[i].idx > 1 /\ sweeps[i].idx <= Len(sweeps[i].channels)

\* The on-demand probe went past the resolution of the model: it was neither
\* rejected as unsupported nor skipped
Resolved ==
    /\ Answered
    /\ probe.in.channel.Type \notin UnsupportedForTesting
    /\ ~IsSkip(probe.result.localErr)

\* C31 as claimed: a probe that goes past the resolution of the model carries
\* a model name that is not empty: the request it hands to the conversion and
\* every audit record it writes name a model, also when the stored test model
\* of the channel is nothing but whitespace.
C31_ModelNamed ==
    Resolved =>
        /\ \A i \in 1..Len(probe.result.audits) : probe.result.audits[i].ModelName # ""
        /\ probe.result.request # NilRequest => probe.result.request.Model # ""

\* The status-mutation requests of the last iteration of a sweep: the ids of
\* the channels of its disable calls, then of its enable calls
MutationsOf(it) == [k \in 1..Len(it.disable) |-> it.disable[k].ChannelId] \o it.enable

\* C32: an iteration of a sweep issues at most one status-mutation request,
\* for the channel it probed: never a disable and an enable call together,
\* never an enable call for a channel enabled in the snapshot, never a disable
\* call for a channel that was not; and a sweep probes no channel of its
\* snapshot twice, so a channel gets at most one such request in a sweep.
C32_OneMutationPerChannel ==
    /\ Probed =>
          /\ Len(MutationsOf(last.it)) <= 1
          /\ \A k \in 1..Len(MutationsOf(last.it)) : MutationsOf(last.it)[k] = last.channel.Id
          /\ last.it.enable # <<>> => last.channel.Status # ChannelStatusEnabled
          /\ last.it.disable # <<>> => last.channel.Status = ChannelStatusEnabled
    /\ \A i \in 1..Len(sweeps) :
          \A a, b \in 1..Len(sweeps[i].probed) :
             a # b => sweeps[i].probed[a] # sweeps[i].probed[b]

\* C32 witness: the second channel of a sweep, auto-disabled in the snapshot,
\* gets an enable call and no disable call
C32_Witness ==
    /\ Probed
    /\ last.channel.Status = ChannelStatusAutoDisabled
    /\ last.it.enable = <<last.channel.Id>>
    /\ last.it.disable = <<>>
    /\ \E i \in 1..Len(sweeps) :
          /\ Len(sweeps[i].probed) = 2
          /\ sweeps[i].probed[2] = last.channel.Id

\* The request type parseTestRequestOverride decodes for a relay format
\* (lines 565-600): the variant that goes with the format
VariantOfFormat(relayFormat) ==
    CASE relayFormat = "RelayFormatEmbedding"       -> "EmbeddingRequest"
      [] relayFormat = "RelayFormatOpenAIImage"     -> "ImageRequest"
      [] relayFormat = "RelayFormatRerank"          -> "RerankRequest"
      [] relayFormat = "RelayFormatOpenAIResponses" -> "OpenAIResponsesRequest"
      [] OTHER -> "GeneralOpenAIRequest"

\* The on-demand probe handed the request it synthesized to the conversion
SynthesizedProbe ==
    /\ Answered
    /\ probe.result.context
    /\ probe.result.request # NilRequest
    /\ probe.result.request.source = "synthesized"

\* C33: for every endpoint hint, model name and provider type the path
\* testChannel resolves is the path buildTestRequest resolves, and the request
\* a probe synthesizes is of the variant of the relay format testChannel
\* derives from the same hint and path.
C33_SynthesisAgrees ==
    /\ (Answered /\ probe.result.context) =>
          probe.result.path =
             buildTestRequestPath(TestModelOf(probe.in), probe.in.endpoint_type, probe.in.channel)
    /\ SynthesizedProbe =>
          probe.result.request.variant =
             VariantOfFormat(relayFormatOf(probe.result.path, probe.in.endpoint_type))

\* C33 witness: with no hint, a codex model on an image-capable channel whose
\* name also meets the embedding and the image rule
C33_Witness ==
    /\ SynthesizedProbe
    /\ probe.in.endpoint_type = ""
    /\ probe.in.channel.Type = "VolcEngine"
    /\ TestModelOf(probe.in) = "codex-seedream-embed"
    /\ probe.result.path = "/v1/responses"
    /\ probe.result.request.variant = "OpenAIResponsesRequest"

====
